---- MODULE Spec2Model ----
(***************************************************************************)
(* A model of the backtest engine (infrastructure/backtest/                *)
(* backtest_engine.py), of the Position entity it mutates and of the       *)
(* Avellaneda-Stoikov quote model (domain/services/avellaneda_stoikov.py). *)
(*                                                                         *)
(* Python floats are modelled as exact rationals <<n, d>> in lowest terms  *)
(* with d > 0: every +, -, * and / of the source is the exact operation.   *)
(* Rounding of IEEE doubles is therefore outside the model.                *)
(***************************************************************************)
EXTENDS Integers, Sequences, FiniteSets, TLC

(***************************************************************************)
(* Exact rational arithmetic standing for Python float arithmetic.         *)
(***************************************************************************)
Abs(n) == IF n < 0 THEN -n ELSE n

RECURSIVE GCD(_, _)
GCD(a, b) == IF b = 0 THEN a ELSE GCD(b, a % b)

Norm(n, d) ==
    IF n = 0 THEN <<0, 1>>
    ELSE LET g == GCD(Abs(n), d) IN <<n \div g, d \div g>>

Num(n) == <<n, 1>>
Frac(n, d) == Norm(n, d)
Zero == Num(0)
One == Num(1)

LCMden(x, y) == (x[2] \div GCD(x[2], y[2])) * y[2]

RAdd(x, y) ==
    LET l == LCMden(x, y)
    IN  Norm(x[1] * (l \div x[2]) + y[1] * (l \div y[2]), l)

RNeg(x) == <<-x[1], x[2]>>
RSub(x, y) == RAdd(x, RNeg(y))

RMul(x, y) ==
    IF x[1] = 0 \/ y[1] = 0 THEN <<0, 1>>
    ELSE LET g1 == GCD(Abs(x[1]), y[2])
             g2 == GCD(Abs(y[1]), x[2])
         IN  <<(x[1] \div g1) * (y[1] \div g2), (x[2] \div g2) * (y[2] \div g1)>>

RInv(x) == IF x[1] < 0 THEN <<-x[2], -x[1]>> ELSE <<x[2], x[1]>>
RDiv(x, y) == RMul(x, RInv(y))

RLt(x, y) ==
    LET l == LCMden(x, y)
    IN  x[1] * (l \div x[2]) < y[1] * (l \div y[2])
RGt(x, y) == RLt(y, x)
RLe(x, y) == ~RLt(y, x)
RGe(x, y) == ~RLt(x, y)
RAbs(x) == <<Abs(x[1]), x[2]>>
RMax(x, y) == IF RLt(x, y) THEN y ELSE x

(***************************************************************************)
(* Bounds of the model and the sets the inputs are drawn from.             *)
(***************************************************************************)
NBars == 3
MaxSignals == 2

Symbols == {"BTC", "ETH"}
Quantities == {1, 2}
ValidSides == {"BUY", "SELL"}
NoDate == 0
BadTimestamp == -1
Unbound == "unbound"

PriceColumns == {"timestamp", "symbol", "close"}
SignalColumns == {"timestamp", "symbol", "side", "quantity"}

VARIABLES
    engine,           \* BacktestEngine: slippage, commission, funding_rate
    prices,           \* argument prices: [cols, rows]
    signals,          \* argument signals: [cols, rows]
    initial_capital,  \* argument initial_capital
    start_date,       \* argument start_date (NoDate = None)
    end_date,         \* argument end_date (NoDate = None)
    pc,               \* position of run() in its body
    error,            \* the exception run() raised, if any
    fprices,          \* local prices after filtering and sorting
    fsignals,         \* local signals after filtering and sorting
    capital,          \* local capital
    positions,        \* local positions: symbol -> Position
    trades,           \* local trades
    equity_curve,     \* local equity_curve
    timeline,         \* prices["timestamp"].unique()
    ti,               \* index in timeline of the timestamp being processed
    queue,            \* rows of current_signals not yet iterated
    lastSignal,       \* history: the row the last loop iteration handled, and its outcome
    lastFor,          \* history: per symbol, the last row handled and its outcome
    executed,         \* history: number of signals executed (not skipped) so far
    result,           \* the BacktestResult returned
    quote,            \* an AvellanedaStoikov model and one call of it
    mm                \* a MarketMakingService, its managers, the exchange, the last call

vars == <<engine, prices, signals, initial_capital, start_date, end_date, pc, error,
          fprices, fsignals, capital, positions, trades, equity_curve, timeline, ti,
          queue, lastSignal, lastFor, executed, result, quote, mm>>

history == <<lastSignal, lastFor, executed>>

inputs == <<engine, prices, signals, initial_capital, start_date, end_date, quote, mm>>

runVars == <<engine, prices, signals, initial_capital, start_date, end_date, pc, error,
             fprices, fsignals, capital, positions, trades, equity_curve, timeline, ti,
             queue, lastSignal, lastFor, executed, result>>

(***************************************************************************)
(* Position entity.                                                        *)
(***************************************************************************)
FlatThreshold == Frac(1, 100000000)

NewPosition(size, entry_price, mark_price) ==
    [size |-> size, entry_price |-> entry_price, mark_price |-> mark_price,
     unrealized_pnl |-> Zero, realized_pnl |-> Zero, funding_paid |-> Zero]

is_flat(p) == RLt(RAbs(p.size), FlatThreshold)

update_pnl(p) ==
    IF is_flat(p)
    THEN [p EXCEPT !.unrealized_pnl = Zero]
    ELSE [p EXCEPT !.unrealized_pnl = RMul(p.size, RSub(p.mark_price, p.entry_price))]

(***************************************************************************)
(* Helpers over the tables (pandas selections).                            *)
(***************************************************************************)
SortByTimestamp(rows) ==
    \* sort_values("timestamp"): ascending, ties in original row order
    LET rank(i) == Cardinality({j \in 1..Len(rows) :
                                   \/ rows[j].timestamp < rows[i].timestamp
                                   \/ (rows[j].timestamp = rows[i].timestamp /\ j < i)}) + 1
    IN  [k \in 1..Len(rows) |-> rows[CHOOSE i \in 1..Len(rows) : rank(i) = k]]

\* mutant: the end of the range is exclusive
InRange_EndExclusive(row, sd, ed) ==
    /\ (sd # NoDate => row.timestamp >= sd)
    /\ (ed # NoDate => row.timestamp < ed)

InRange(row, sd, ed) ==
    /\ (sd # NoDate => row.timestamp >= sd)
    /\ (ed # NoDate => row.timestamp <= ed)

FilterByDate(rows, sd, ed) == SelectSeq(rows, LAMBDA r : InRange(r, sd, ed))

\* mutant: the loop iterates the timestamp column itself, duplicates included
Unique_KeepAll(tss) == tss

Unique(tss) ==
    \* Series.unique(): distinct values in order of first appearance
    LET tagged == [i \in 1..Len(tss) |->
                      [value |-> tss[i], first |-> \A j \in 1..(i - 1) : tss[j] # tss[i]]]
        kept == SelectSeq(tagged, LAMBDA t : t.first)
    IN  [k \in 1..Len(kept) |-> kept[k].value]

Timestamps(rows) == [i \in 1..Len(rows) |-> rows[i].timestamp]

\* mutant: the rows of the timestamp, whatever their symbol
PriceData_AnySymbol(timestamp, symbol) == SelectSeq(fprices, LAMBDA r : r.timestamp = timestamp)

PriceData(timestamp, symbol) ==
    SelectSeq(fprices, LAMBDA r : r.timestamp = timestamp /\ r.symbol = symbol)

CurrentSignals(timestamp) == SelectSeq(fsignals, LAMBDA r : r.timestamp = timestamp)

(***************************************************************************)
(* BacktestEngine._validate_data: the exception it raises, or "" for none. *)
(***************************************************************************)
NoError == [type |-> "", message |-> "", values |-> {}]

\* mutant: only the rows of the requested range are validated
InvalidSides_InRangeOnly(rows) ==
    {rows[i].side : i \in {j \in 1..Len(rows) :
                              /\ rows[j].side \notin ValidSides
                              /\ (start_date # NoDate => rows[j].timestamp >= start_date)
                              /\ (end_date # NoDate => rows[j].timestamp <= end_date)}}

InvalidSides(rows) == {rows[i].side : i \in {j \in 1..Len(rows) : rows[j].side \notin ValidSides}}

_validate_data(p, s) ==
    IF ~(PriceColumns \subseteq p.cols)
    THEN [type |-> "InvalidDataError", message |-> "Missing required columns in prices",
          values |-> PriceColumns \ p.cols]
    ELSE IF ~(SignalColumns \subseteq s.cols)
    THEN [type |-> "InvalidDataError", message |-> "Missing required columns in signals",
          values |-> SignalColumns \ s.cols]
    ELSE IF \E i \in 1..Len(p.rows) : p.rows[i].timestamp = BadTimestamp
    THEN [type |-> "InvalidDataError", message |-> "Invalid timestamp format in prices",
          values |-> {}]
    ELSE IF \E i \in 1..Len(s.rows) : s.rows[i].timestamp = BadTimestamp
    THEN [type |-> "InvalidDataError", message |-> "Invalid timestamp format in signals",
          values |-> {}]
    ELSE IF InvalidSides(s.rows) # {}
    THEN [type |-> "InvalidDataError", message |-> "Invalid side values",
          values |-> InvalidSides(s.rows)]
    ELSE NoError

(***************************************************************************)
(* BacktestEngine._apply_slippage                                          *)
(***************************************************************************)
\* mutant: the slippage does not grow with the quantity
_apply_slippage_Flat(price, side, quantity) ==
    IF side = "BUY"
    THEN RMul(price, RAdd(One, engine.slippage))
    ELSE RMul(price, RSub(One, engine.slippage))

_apply_slippage(price, side, quantity) ==
    LET slippage_factor == RMul(engine.slippage, RAdd(One, RDiv(quantity, Num(100))))
    IN  IF side = "BUY"
        THEN RMul(price, RAdd(One, slippage_factor))
        ELSE RMul(price, RSub(One, slippage_factor))

(***************************************************************************)
(* One iteration of the signal loop of BacktestEngine.run.                 *)
(***************************************************************************)
\* mutant: the cost is compared with the capital the run started with
InsufficientCapital_Initial(side, total_cost, cap) ==
    side = "BUY" /\ RGt(total_cost, initial_capital)

\* mutant: the cost of a SELL is tested against the capital as well
InsufficientCapital_AnySide(side, total_cost, cap) == RGt(total_cost, cap)

InsufficientCapital(side, total_cost, cap) == side = "BUY" /\ RGt(total_cost, cap)

IsReducing(size, new_size) ==
    \/ (RGt(size, Zero) /\ RLt(new_size, size))
    \/ (RLt(size, Zero) /\ RGt(new_size, size))

IsAdding(size, new_size) ==
    \/ (RGt(size, Zero) /\ RGt(new_size, size))
    \/ (RLt(size, Zero) /\ RLt(new_size, size))

\* mutant: a SELL adds the quantity instead of subtracting it
NewSize_SellAdds(size, side, quantity) == RAdd(size, quantity)

NewSize(size, side, quantity) ==
    IF side = "BUY" THEN RAdd(size, quantity) ELSE RSub(size, quantity)

\* mutant: the closed size carries the sign of the position
RealizedPnl_Signed(position, new_size, execution_price) ==
    RMul(RSub(position.size, new_size), RSub(execution_price, position.entry_price))

RealizedPnl(position, new_size, execution_price) ==
    RMul(RAbs(RSub(position.size, new_size)), RSub(execution_price, position.entry_price))

\* mutant: the plain mean of the old entry price and the execution price
AverageEntry_Unweighted(position, new_size, quantity, execution_price) ==
    RDiv(RAdd(position.entry_price, execution_price), Num(2))

AverageEntry(position, new_size, quantity, execution_price) ==
    RDiv(RAdd(RMul(RAbs(position.size), position.entry_price), RMul(quantity, execution_price)),
         RAbs(new_size))

TradeRecord(timestamp, symbol, side, position, new_size, execution_price, commission_cost) ==
    [timestamp |-> timestamp, symbol |-> symbol, side |-> side,
     quantity |-> RAbs(RSub(position.size, new_size)),
     entry_price |-> position.entry_price, exit_price |-> execution_price,
     pnl |-> RealizedPnl(position, new_size, execution_price),
     commission |-> commission_cost]

\* mutant: the fill changes size and mark_price without recomputing the pnl
UpdatedPosition_NoRecompute(position, side, quantity, execution_price) ==
    LET new_size == NewSize(position.size, side, quantity)
    IN  [position EXCEPT !.size = new_size, !.mark_price = execution_price,
                         !.entry_price =
                             IF IsAdding(position.size, new_size)
                             THEN AverageEntry(position, new_size, quantity, execution_price)
                             ELSE @]

UpdatedPosition(position, side, quantity, execution_price) ==
    \* lines 173-178 and 198-207: the position object after the fill
    LET new_size == NewSize(position.size, side, quantity)
        p1 == IF IsReducing(position.size, new_size)
              THEN [position EXCEPT !.realized_pnl =
                        RAdd(@, RealizedPnl(position, new_size, execution_price))]
              ELSE position
        p2 == IF IsAdding(position.size, new_size)
              THEN [p1 EXCEPT !.entry_price =
                        AverageEntry(position, new_size, quantity, execution_price)]
              ELSE p1
    IN  update_pnl([p2 EXCEPT !.size = new_size, !.mark_price = execution_price])

SettleCapital(cap, side, cost, commission_cost) ==
    \* lines 209-213
    IF side = "BUY"
    THEN RSub(cap, RAdd(cost, commission_cost))
    ELSE RAdd(cap, RSub(cost, commission_cost))

Without(f, k) == [x \in DOMAIN f \ {k} |-> f[x]]
With(f, k, v) == [x \in DOMAIN f \cup {k} |-> IF x = k THEN v ELSE f[x]]

\* The effect of one row of current_signals at `timestamp` on
\* (capital, positions, trades), with the way the iteration ended.
HandleSignal(cap, pos, trs, timestamp, signal) ==
    LET symbol == signal.symbol
        side == signal.side
        quantity == signal.quantity
        price_data == PriceData(timestamp, symbol)
        current_price == price_data[1].close
        execution_price == _apply_slippage(current_price, side, quantity)
        cost == RMul(execution_price, quantity)
        commission_cost == RMul(cost, engine.commission)
        total_cost == RAdd(cost, commission_cost)
        unchanged(why) == [capital |-> cap, positions |-> pos, trades |-> trs, outcome |-> why]
    IN  IF Len(price_data) = 0 THEN unchanged("no_price")
        ELSE IF InsufficientCapital(side, total_cost, cap) THEN unchanged("insufficient_capital")
        ELSE IF symbol \notin DOMAIN pos
        THEN [capital |-> SettleCapital(cap, side, cost, commission_cost),
              positions |-> With(pos, symbol,
                                 NewPosition(IF side = "BUY" THEN quantity ELSE RNeg(quantity),
                                             execution_price, execution_price)),
              trades |-> trs,
              outcome |-> "opened"]
        ELSE
            LET position == pos[symbol]
                new_size == NewSize(position.size, side, quantity)
                reducing == IsReducing(position.size, new_size)
                cap1 == IF reducing
                        THEN RAdd(cap, RealizedPnl(position, new_size, execution_price))
                        ELSE cap
            IN  [capital |-> SettleCapital(cap1, side, cost, commission_cost),
                 positions |-> IF RLt(RAbs(new_size), FlatThreshold)
                               THEN Without(pos, symbol)
                               ELSE With(pos, symbol,
                                         UpdatedPosition(position, side, quantity, execution_price)),
                 trades |-> IF reducing
                            THEN Append(trs, TradeRecord(timestamp, symbol, side, position,
                                                         new_size, execution_price, commission_cost))
                            ELSE trs,
                 outcome |-> IF RLt(RAbs(new_size), FlatThreshold) THEN "closed"
                             ELSE IF reducing THEN "reduced" ELSE "added"]

(***************************************************************************)
(* Funding and equity (lines 215-231).                                     *)
(***************************************************************************)
FundingCost(p) == RMul(RMul(RAbs(p.size), p.mark_price), engine.funding_rate)

RECURSIVE FundingDelta(_, _)
FundingDelta(pos, S) ==
    \* the net change of capital over the positions of S
    IF S = {} THEN Zero
    ELSE LET s == CHOOSE x \in S : TRUE
             d == IF RGt(pos[s].size, Zero) THEN RNeg(FundingCost(pos[s])) ELSE FundingCost(pos[s])
         IN  RAdd(d, FundingDelta(pos, S \ {s}))

\* mutant: the seed entry of the curve is not counted
FundingDue_Unseeded(curve) == (Len(curve) - 1) % 3 = 0

FundingDue(curve) == Len(curve) % 3 = 0

RECURSIVE SumUnrealized(_, _)
SumUnrealized(pos, S) ==
    IF S = {} THEN Zero
    ELSE LET s == CHOOSE x \in S : TRUE
         IN  RAdd(pos[s].unrealized_pnl, SumUnrealized(pos, S \ {s}))

TotalEquity(cap, pos) == RAdd(cap, SumUnrealized(pos, DOMAIN pos))

(***************************************************************************)
(* Metrics of the BacktestResult (lines 233-292).  sharpe_ratio needs a   *)
(* square root and is not modelled.                                        *)
(***************************************************************************)
RECURSIVE SumPnl(_)
SumPnl(ts) == IF ts = <<>> THEN Zero ELSE RAdd(ts[1].pnl, SumPnl(Tail(ts)))

Winning_NonNegative(trs) == SelectSeq(trs, LAMBDA t : RGe(t.pnl, Zero))

Winning(trs) == SelectSeq(trs, LAMBDA t : RGt(t.pnl, Zero))

\* np.maximum.accumulate(equity_array)[i]
RunningMax(curve, i) ==
    CHOOSE m \in {curve[j] : j \in 1..i} : \A j \in 1..i : RLe(curve[j], m)

\* abs(np.min((equity_array - running_max) / running_max * 100))
MaxDrawdown(curve) ==
    LET drawdown == [i \in 1..Len(curve) |->
                        RMul(RDiv(RSub(curve[i], RunningMax(curve, i)), RunningMax(curve, i)),
                             Num(100))]
    IN  IF Len(curve) > 0
        THEN RAbs(CHOOSE d \in {drawdown[i] : i \in 1..Len(curve)} :
                      \A i \in 1..Len(curve) : RLe(d, drawdown[i]))
        ELSE Zero
Losing(trs) == SelectSeq(trs, LAMBDA t : RLt(t.pnl, Zero))

\* mutant: final_capital is taken to be the profit, not the last equity
FinalCapital_IsPnl(curve) == RSub(curve[Len(curve)], initial_capital)

FinalCapital(curve) == IF curve # <<>> THEN curve[Len(curve)] ELSE initial_capital

Metrics(curve, trs) ==
    LET final_capital == FinalCapital(curve)
        winning == Winning(trs)
        losing == Losing(trs)
        gross_profit == SumPnl(winning)
        gross_loss == RAbs(SumPnl(losing))
    IN  [initial_capital |-> initial_capital,
         final_capital |-> final_capital,
         total_return |-> RMul(RDiv(RSub(final_capital, initial_capital), initial_capital),
                               Num(100)),
         total_pnl |-> RSub(final_capital, initial_capital),
         max_drawdown |-> MaxDrawdown(curve),
         win_rate |-> IF Len(trs) > 0
                      THEN RMul(Frac(Len(winning), Len(trs)), Num(100)) ELSE Zero,
         total_trades |-> Len(trs),
         winning_trades |-> Len(winning),
         losing_trades |-> Len(losing),
         average_win |-> IF winning # <<>>
                         THEN RDiv(gross_profit, Num(Len(winning))) ELSE Zero,
         average_loss |-> IF losing # <<>>
                          THEN RDiv(SumPnl(losing), Num(Len(losing))) ELSE Zero,
         profit_factor |-> IF RGt(gross_loss, Zero)
                           THEN RDiv(gross_profit, gross_loss) ELSE Zero,
         equity_curve |-> curve,
         trades |-> trs]

(***************************************************************************)
(* BacktestEngine.run as a state machine.                                  *)
(***************************************************************************)
Validate ==
    /\ pc = "start"
    /\ error' = _validate_data(prices, signals)
    /\ pc' = IF _validate_data(prices, signals) = NoError THEN "filter" ELSE "raised"
    /\ UNCHANGED <<inputs, fprices, fsignals, capital, positions, trades, equity_curve,
                   timeline, ti, queue, history, result>>

Filter ==
    \* lines 94-103
    /\ pc = "filter"
    /\ fprices' = FilterByDate(prices.rows, start_date, end_date)
    /\ fsignals' = FilterByDate(signals.rows, start_date, end_date)
    /\ IF Len(fprices') = 0
       THEN /\ error' = [type |-> "BacktestError", message |-> "No price data in date range",
                         values |-> {}]
            /\ pc' = "raised"
       ELSE /\ error' = error
            /\ pc' = "init"
    /\ UNCHANGED <<inputs, capital, positions, trades, equity_curve, timeline, ti, queue,
                   history, result>>

InitState ==
    \* lines 105-117
    /\ pc = "init"
    /\ capital' = initial_capital
    /\ positions' = [x \in {} |-> Zero]
    /\ trades' = <<>>
    /\ equity_curve' = <<initial_capital>>
    /\ fprices' = SortByTimestamp(fprices)
    /\ fsignals' = SortByTimestamp(fsignals)
    /\ timeline' = Unique(Timestamps(SortByTimestamp(fprices)))
    /\ ti' = 1
    /\ pc' = "mark"
    /\ UNCHANGED <<inputs, error, queue, history, result>>

MarkToMarket ==
    \* lines 117-130
    /\ pc = "mark"
    /\ positions' = [x \in DOMAIN positions |->
                        IF Len(PriceData(timeline[ti], x)) > 0
                        THEN update_pnl([positions[x] EXCEPT
                                 !.mark_price = PriceData(timeline[ti], x)[1].close])
                        ELSE positions[x]]
    /\ queue' = CurrentSignals(timeline[ti])
    /\ pc' = "signals"
    /\ UNCHANGED <<inputs, error, fprices, fsignals, capital, trades, equity_curve, timeline,
                   ti, history, result>>

Skipped == {"no_price", "insufficient_capital"}

ProcessSignal ==
    \* lines 131-213, one row of current_signals
    /\ pc = "signals"
    /\ queue # <<>>
    /\ LET r == HandleSignal(capital, positions, trades, timeline[ti], Head(queue))
       IN  /\ capital' = r.capital
           /\ positions' = r.positions
           /\ trades' = r.trades
           /\ lastSignal' = [row |-> Head(queue), outcome |-> r.outcome]
           /\ lastFor' = [lastFor EXCEPT ![Head(queue).symbol] =
                              [row |-> Head(queue), outcome |-> r.outcome]]
           /\ executed' = IF r.outcome \in Skipped THEN executed ELSE executed + 1
    /\ queue' = Tail(queue)
    /\ UNCHANGED <<inputs, pc, error, fprices, fsignals, equity_curve, timeline, ti, result>>

ApplyFunding ==
    \* lines 215-223
    /\ pc = "signals"
    /\ queue = <<>>
    /\ IF FundingDue(equity_curve)
       THEN /\ capital' = RAdd(capital, FundingDelta(positions, DOMAIN positions))
            /\ positions' = [x \in DOMAIN positions |->
                                [positions[x] EXCEPT
                                    !.funding_paid = RAdd(@, FundingCost(positions[x]))]]
       ELSE UNCHANGED <<capital, positions>>
    /\ pc' = "snapshot"
    /\ UNCHANGED <<inputs, error, fprices, fsignals, trades, equity_curve, timeline, ti,
                   queue, history, result>>

Snapshot ==
    \* lines 225-231 and the loop's advance
    /\ pc = "snapshot"
    /\ equity_curve' = Append(equity_curve, TotalEquity(capital, positions))
    /\ IF ti < Len(timeline)
       THEN ti' = ti + 1 /\ pc' = "mark"
       ELSE ti' = ti /\ pc' = "metrics"
    /\ UNCHANGED <<inputs, error, fprices, fsignals, capital, positions, trades, timeline,
                   queue, history, result>>

Return ==
    \* lines 233-292
    /\ pc = "metrics"
    /\ result' = Metrics(equity_curve, trades)
    /\ pc' = "done"
    /\ UNCHANGED <<inputs, error, fprices, fsignals, capital, positions, trades, equity_curve,
                   timeline, ti, queue, history>>

Next ==
    \/ Validate
    \/ Filter
    \/ InitState
    \/ MarkToMarket
    \/ ProcessSignal
    \/ ApplyFunding
    \/ Snapshot
    \/ Return

(***************************************************************************)
(* Inputs.                                                                 *)
(***************************************************************************)
NoSignal == [row |-> Unbound, outcome |-> "none"]

Locals ==
    /\ pc = "start"
    /\ error = NoError
    /\ fprices = <<>>
    /\ fsignals = <<>>
    /\ capital = Unbound
    /\ positions = Unbound
    /\ trades = Unbound
    /\ equity_curve = Unbound
    /\ timeline = <<>>
    /\ ti = 0
    /\ queue = <<>>
    /\ lastSignal = NoSignal
    /\ lastFor = [x \in Symbols |-> NoSignal]
    /\ executed = 0
    /\ result = Unbound

NoCall == [op |-> "none"]

\* no service has been constructed
NoService == [params |-> Unbound, positions |-> <<>>, orders |-> <<>>, exchange |-> <<>>,
              call |-> NoCall]

NoQuote ==
    [pc |-> "none", params |-> Unbound, mid_price |-> Zero, inventory |-> Zero,
     time_to_maturity |-> Zero, max_inventory |-> Zero, base_quantity |-> Zero,
     call |-> "", bid_price |-> Unbound, ask_price |-> Unbound,
     bid_quantity |-> Unbound, ask_quantity |-> Unbound, spread |-> Unbound,
     error |-> "", message |-> ""]

SeqsUpTo(S, n) == UNION {[1..k -> S] : k \in 0..n}

IsSorted(rows) == \A i \in 1..(Len(rows) - 1) : rows[i].timestamp <= rows[i + 1].timestamp

\* Price tables of the trading runs: BTC rises or falls by 10 a bar and has a
\* row at every bar; ETH stays at 10 and has a row at every bar or at odd bars.
BtcClose(trend, b) == IF trend = "rise" THEN 10 * b ELSE 10 * (NBars + 1 - b)

PriceRows(trend, ethBars) ==
    LET row(b, sym) == [timestamp |-> b, symbol |-> sym,
                        close |-> IF sym = "BTC" THEN Num(BtcClose(trend, b)) ELSE Num(10)]
        RECURSIVE build(_)
        build(b) ==
            IF b > NBars THEN <<>>
            ELSE (IF ethBars = "all" \/ b % 2 = 1
                  THEN <<row(b, "BTC"), row(b, "ETH")>> ELSE <<row(b, "BTC")>>) \o build(b + 1)
    IN  build(1)

TradingPrices ==
    {[cols |-> PriceColumns, rows |-> PriceRows(t, e)] : t \in {"rise", "fall"},
                                                           e \in {"all", "odd"}}

SignalRows ==
    [timestamp : 1..NBars, symbol : Symbols, side : ValidSides,
     quantity : {Num(q) : q \in Quantities}]

TradingSignals ==
    {[cols |-> SignalColumns, rows |-> rs] : rs \in {x \in SeqsUpTo(SignalRows, MaxSignals) : IsSorted(x)}}

TenthRates == [slippage |-> Frac(1, 10), commission |-> Frac(1, 10), funding_rate |-> Frac(1, 10)]

\* Runs with quantities below the 1e-8 flat threshold: no slippage, commission
\* or funding, BTC only.
Dust == Frac(1, 200000000)

ZeroRates == [slippage |-> Zero, commission |-> Zero, funding_rate |-> Zero]

DustSignalRows == [timestamp : 1..NBars, symbol : {"BTC"}, side : ValidSides, quantity : {Dust}]

DustSignals ==
    {[cols |-> SignalColumns, rows |-> rs] :
        rs \in {x \in SeqsUpTo(DustSignalRows, MaxSignals) : IsSorted(x)}}

InitDust ==
    /\ engine = ZeroRates
    /\ prices \in {[cols |-> PriceColumns,
                     rows |-> SelectSeq(PriceRows(t, "all"), LAMBDA r : r.symbol = "BTC")] :
                        t \in {"rise", "fall"}}
    /\ signals \in DustSignals
    /\ initial_capital = Num(10)
    /\ start_date = NoDate
    /\ end_date = NoDate
    /\ Locals
    /\ mm = NoService
    /\ quote = NoQuote

\* Runs over date ranges: each bar has no price row, a BTC row, or a BTC and
\* an ETH row; the rows come in ascending or in descending order; signal rows
\* may carry a side that is not valid.
Reverse(q) == [i \in 1..Len(q) |-> q[Len(q) + 1 - i]]

RangePriceRows(presence) ==
    LET row(b, sym) == [timestamp |-> b, symbol |-> sym, close |-> Num(10)]
        RECURSIVE build(_)
        build(b) ==
            IF b > NBars THEN <<>>
            ELSE (CASE presence[b] = "none" -> <<>>
                    [] presence[b] = "BTC" -> <<row(b, "BTC")>>
                    [] OTHER -> <<row(b, "BTC"), row(b, "ETH")>>) \o build(b + 1)
    IN  build(1)

RangePrices ==
    {[cols |-> PriceColumns, rows |-> rs] :
        rs \in UNION {{RangePriceRows(f), Reverse(RangePriceRows(f))} :
                         f \in [1..NBars -> {"none", "BTC", "both"}]}}

RangeSignalRows ==
    [timestamp : {1, NBars}, symbol : {"BTC"}, side : {"BUY", "SELL", "HOLD"},
     quantity : {Num(1)}]

RangeSignals ==
    {[cols |-> SignalColumns, rows |-> rs] : rs \in SeqsUpTo(RangeSignalRows, MaxSignals)}

RangeDates == {NoDate, 2}

MalformedPrices ==
    {[cols |-> PriceColumns, rows |-> RangePriceRows([b \in 1..NBars |-> "BTC"])],
     [cols |-> {"timestamp", "symbol"}, rows |-> RangePriceRows([b \in 1..NBars |-> "BTC"])],
     [cols |-> PriceColumns,
      rows |-> <<[timestamp |-> BadTimestamp, symbol |-> "BTC", close |-> Num(10)]>>]}

MalformedSignals ==
    {[cols |-> SignalColumns,
      rows |-> <<[timestamp |-> 1, symbol |-> "BTC", side |-> "BUY", quantity |-> Num(1)]>>],
     [cols |-> {"timestamp", "symbol", "side"},
      rows |-> <<[timestamp |-> 1, symbol |-> "BTC", side |-> "HOLD", quantity |-> Num(1)]>>],
     [cols |-> SignalColumns,
      rows |-> <<[timestamp |-> BadTimestamp, symbol |-> "BTC", side |-> "HOLD",
                  quantity |-> Num(1)]>>],
     [cols |-> SignalColumns,
      rows |-> <<[timestamp |-> 1, symbol |-> "BTC", side |-> "HOLD", quantity |-> Num(1)],
                 [timestamp |-> NBars, symbol |-> "BTC", side |-> "buy", quantity |-> Num(1)]>>]}

InitRange ==
    /\ engine = TenthRates
    /\ \/ prices \in RangePrices /\ signals \in RangeSignals
       \/ prices \in MalformedPrices /\ signals \in MalformedSignals
    /\ initial_capital = Num(100)
    /\ start_date \in RangeDates
    /\ end_date \in RangeDates
    /\ Locals
    /\ mm = NoService
    /\ quote = NoQuote

\* The buy-and-hold scenarios: 100 hourly BTC bars, close 50000 + step * i with
\* step 100 (rising) or 0 (flat), one BUY of 1.0 at the first bar, the engine
\* of the tests.
HoldBars == 100
HoldClose == 50000
HoldStep == 100
HoldCapital == 100000

DefaultRates ==
    [slippage |-> Frac(1, 1000), commission |-> Frac(2, 10000), funding_rate |-> Frac(1, 10000)]

HoldPrices(step) ==
    [cols |-> PriceColumns \cup {"open", "high", "low", "volume"},
     rows |-> [i \in 1..HoldBars |->
                  [timestamp |-> i, symbol |-> "BTC", close |-> Num(HoldClose + step * (i - 1))]]]

HoldSignals ==
    [cols |-> SignalColumns,
     rows |-> <<[timestamp |-> 1, symbol |-> "BTC", side |-> "BUY", quantity |-> Num(1)]>>]

InitHold ==
    /\ engine = DefaultRates
    /\ prices \in {HoldPrices(HoldStep), HoldPrices(0)}
    /\ signals = HoldSignals
    /\ initial_capital = Num(HoldCapital)
    /\ start_date = NoDate
    /\ end_date = NoDate
    /\ Locals
    /\ mm = NoService
    /\ quote = NoQuote

Init ==
    /\ engine = TenthRates
    /\ prices \in TradingPrices
    /\ signals \in TradingSignals
    /\ initial_capital = Num(100)
    /\ start_date = NoDate
    /\ end_date = NoDate
    /\ Locals
    /\ mm = NoService
    /\ quote = NoQuote

Spec == Init /\ [][Next]_vars

\* Quote-model calls: parameters inside and outside the accepted ranges.
QuoteParams ==
    [risk_aversion : {Zero, Frac(1, 2), Num(2)},
     volatility : {Zero, One, Num(2)},
     arrival_rate : {Zero, One, Num(10)},
     reservation_spread : {Num(-1), Zero, One, Num(5)}]

InitQuote ==
    /\ quote \in [pc : {"new"}, params : QuoteParams,
                   mid_price : {Zero, Num(100)},
                   inventory : {Num(-3), Zero, Num(3)},
                   time_to_maturity : {Num(-2), Zero, Frac(1, 2), One},
                   max_inventory : {Num(10)}, base_quantity : {Zero, One},
                   call : {""}, bid_price : {Unbound}, ask_price : {Unbound},
                   bid_quantity : {Unbound}, ask_quantity : {Unbound}, spread : {Unbound},
                   error : {""}, message : {""}]
    /\ engine = DefaultRates
    /\ prices = [cols |-> PriceColumns, rows |-> <<>>]
    /\ signals = [cols |-> SignalColumns, rows |-> <<>>]
    /\ initial_capital = Zero
    /\ start_date = NoDate
    /\ end_date = NoDate
    /\ Locals
    /\ mm = NoService

SpecRange == InitRange /\ [][Next]_vars

SpecHold == InitHold /\ [][Next]_vars

SpecDust == (Init \/ InitDust) /\ [][Next]_vars

\* Runs of an engine without slippage, commission or funding.
InitZeroCost ==
    /\ engine = ZeroRates
    /\ prices \in TradingPrices
    /\ signals \in TradingSignals
    /\ initial_capital = Num(100)
    /\ start_date = NoDate
    /\ end_date = NoDate
    /\ Locals
    /\ mm = NoService
    /\ quote = NoQuote

SpecZeroCost == InitZeroCost /\ [][Next]_vars

\* The trading runs of three bars together with the buy-and-hold runs of 100 bars.
SpecFunding == (Init \/ InitHold) /\ [][Next]_vars

\* The trading runs together with the runs over date ranges, whose price
\* series may lack whole bars.
SpecGaps == (Init \/ InitRange) /\ [][Next]_vars

\* The trading runs, started with a capital of 100 or with a capital of 10,
\* which pays for no BUY of BTC.
InitLowCapital ==
    /\ engine = TenthRates
    /\ prices \in TradingPrices
    /\ signals \in TradingSignals
    /\ initial_capital \in {Num(10), Num(100)}
    /\ start_date = NoDate
    /\ end_date = NoDate
    /\ Locals
    /\ mm = NoService
    /\ quote = NoQuote

SpecLowCapital == InitLowCapital /\ [][Next]_vars

(***************************************************************************)
(* The Avellaneda-Stoikov quote model.                                     *)
(*                                                                         *)
(* math.log has no exact rational value.  Log(y) is the rational function  *)
(* 2(y - 1)/(y + 1): like the logarithm it is 0 at 1, positive above 1,    *)
(* negative below 1 and increasing, and it never exceeds the logarithm for *)
(* y >= 1.  Properties that need the numeric value of the logarithm are    *)
(* not decided by this model.                                              *)
(***************************************************************************)
Log(y) == RDiv(RMul(Num(2), RSub(y, One)), RAdd(y, One))

\* AvellanedaStoikovParams: the pydantic constraints of the four fields
ParamsAccepted(params) ==
    /\ RGt(params.risk_aversion, Zero)
    /\ RGt(params.volatility, Zero)
    /\ RGt(params.arrival_rate, Zero)
    /\ RGe(params.reservation_spread, Zero)

_calculate_reservation_price_Plus(params, mid_price, inventory, time_to_maturity) ==
    LET adjustment == RMul(RMul(RMul(params.risk_aversion,
                                     RMul(params.volatility, params.volatility)),
                                inventory),
                           time_to_maturity)
    IN  RAdd(mid_price, adjustment)

_calculate_reservation_price(params, mid_price, inventory, time_to_maturity) ==
    LET adjustment == RMul(RMul(RMul(params.risk_aversion,
                                     RMul(params.volatility, params.volatility)),
                                inventory),
                           time_to_maturity)
    IN  RSub(mid_price, adjustment)

\* mutant: the base spread widens with the size of the inventory
_calculate_optimal_spread_Widening(params, inventory, time_to_maturity) ==
    RMax(RMul(RMul(params.risk_aversion, RMul(params.volatility, params.volatility)),
              RAdd(time_to_maturity, RAbs(inventory))),
         params.reservation_spread)

_calculate_optimal_spread(params, inventory, time_to_maturity) ==
    LET gamma == params.risk_aversion
        sigma_sq == RMul(params.volatility, params.volatility)
        lambda_rate == params.arrival_rate
        base_spread == RMul(RMul(gamma, sigma_sq), time_to_maturity)
        k == RDiv(lambda_rate, RMul(gamma, sigma_sq))
        intensity_component ==
            IF RGt(lambda_rate, Zero) /\ RGt(gamma, Zero)
            THEN IF RGt(k, Zero)
                 THEN RMul(RDiv(Num(2), gamma), Log(RAdd(One, RDiv(gamma, k))))
                 ELSE Zero
            ELSE Zero
        total_spread == RAdd(base_spread, intensity_component)
    IN  RMax(total_spread, params.reservation_spread)

\* AvellanedaStoikov.calculate_spread
calculate_spread(params, inventory, time_to_maturity) ==
    RMax(_calculate_optimal_spread(params, inventory, time_to_maturity),
         params.reservation_spread)

calculate_optimal_spread(params, mid_price, inventory, time_to_maturity) ==
    \* AvellanedaStoikov.calculate_optimal_spread, for mid_price > 0
    LET reservation_price ==
            _calculate_reservation_price(params, mid_price, inventory, time_to_maturity)
        spread == _calculate_optimal_spread(params, inventory, time_to_maturity)
        bid_price == RSub(reservation_price, RDiv(spread, Num(2)))
        ask_price == RAdd(reservation_price, RDiv(spread, Num(2)))
    IN  IF RLt(RSub(ask_price, bid_price), params.reservation_spread)
        THEN [bid_price |-> RSub(reservation_price, RDiv(params.reservation_spread, Num(2))),
              ask_price |-> RAdd(reservation_price, RDiv(params.reservation_spread, Num(2)))]
        ELSE [bid_price |-> bid_price, ask_price |-> ask_price]

Construct ==
    \* AvellanedaStoikovParams(...) and AvellanedaStoikov.__init__
    /\ quote.pc = "new"
    /\ quote' = IF ParamsAccepted(quote.params)
                THEN [quote EXCEPT !.pc = "ready"]
                ELSE [quote EXCEPT !.pc = "raised", !.error = "ValidationError"]
    /\ UNCHANGED <<runVars, mm>>

\* the skew of lines 198-209: which side grows with the inventory
SkewedQuantities_Mirrored(inventory, inventory_ratio, base_quantity) ==
    LET up == RMul(base_quantity, RAdd(One, RMul(inventory_ratio, Frac(1, 2))))
        down == RMul(base_quantity, RSub(One, RMul(inventory_ratio, Frac(1, 2))))
    IN  IF RGt(inventory, Zero) THEN [bid_quantity |-> down, ask_quantity |-> up]
        ELSE IF RLt(inventory, Zero) THEN [bid_quantity |-> up, ask_quantity |-> down]
        ELSE [bid_quantity |-> base_quantity, ask_quantity |-> base_quantity]

SkewedQuantities(inventory, inventory_ratio, base_quantity) ==
    IF RGt(inventory, Zero)
    THEN [bid_quantity |-> RMul(base_quantity, RAdd(One, RMul(inventory_ratio, Frac(1, 2)))),
          ask_quantity |-> RMul(base_quantity, RSub(One, RMul(inventory_ratio, Frac(1, 2))))]
    ELSE IF RLt(inventory, Zero)
    THEN [bid_quantity |-> RMul(base_quantity, RSub(One, RMul(inventory_ratio, Frac(1, 2)))),
          ask_quantity |-> RMul(base_quantity, RAdd(One, RMul(inventory_ratio, Frac(1, 2))))]
    ELSE [bid_quantity |-> base_quantity, ask_quantity |-> base_quantity]

FloorAtZero_None(q) == q

\* max(0.0, bid_quantity), max(0.0, ask_quantity)
FloorAtZero(q) ==
    [bid_quantity |-> RMax(Zero, q.bid_quantity), ask_quantity |-> RMax(Zero, q.ask_quantity)]

\* mutant: the ramp has no floor
DampeningScale_NoFloor(inventory_ratio) ==
    IF RGt(inventory_ratio, Frac(8, 10))
    THEN RSub(One, RMul(RSub(inventory_ratio, Frac(8, 10)), Num(2)))
    ELSE One

DampeningScale_NoDoubling(inventory_ratio) ==
    IF RGt(inventory_ratio, Frac(8, 10))
    THEN RMax(Frac(1, 10), RSub(One, RSub(inventory_ratio, Frac(8, 10))))
    ELSE One

\* the factor both quantities are multiplied by (1 when the branch is not taken)
DampeningScale(inventory_ratio) ==
    IF RGt(inventory_ratio, Frac(8, 10))
    THEN RMax(Frac(1, 10),
              RSub(One, RMul(RSub(inventory_ratio, Frac(8, 10)), Num(2))))
    ELSE One

InventoryRatio(inventory, max_inventory) ==
    IF RGt(max_inventory, Zero) THEN RDiv(RAbs(inventory), max_inventory) ELSE Zero

Raised(type, message) == [error |-> type, message |-> message]

QuantityArgumentError_Negative(base_quantity, max_inventory) ==
    IF RLt(base_quantity, Zero) THEN "Base quantity must be positive"
    ELSE IF RLt(max_inventory, Zero) THEN "Max inventory must be positive"
    ELSE ""

\* the two argument checks of calculate_optimal_quantities ("" = both pass)
QuantityArgumentError(base_quantity, max_inventory) ==
    IF RLe(base_quantity, Zero) THEN "Base quantity must be positive"
    ELSE IF RLe(max_inventory, Zero) THEN "Max inventory must be positive"
    ELSE ""

calculate_optimal_quantities(params, mid_price, inventory, max_inventory, base_quantity, time_to_maturity) ==
    IF QuantityArgumentError(base_quantity, max_inventory) # ""
    THEN Raised("ValueError", QuantityArgumentError(base_quantity, max_inventory))
    ELSE IF RLe(mid_price, Zero) THEN Raised("ValueError", "Mid price must be positive")
    ELSE LET inventory_ratio == InventoryRatio(inventory, max_inventory)
             prices_ == calculate_optimal_spread(params, mid_price, inventory, time_to_maturity)
             floored == FloorAtZero(SkewedQuantities(inventory, inventory_ratio, base_quantity))
             scale == DampeningScale(inventory_ratio)
         IN  [error |-> "", message |-> "",
              bid_price |-> prices_.bid_price, ask_price |-> prices_.ask_price,
              bid_quantity |-> RMul(floored.bid_quantity, scale),
              ask_quantity |-> RMul(floored.ask_quantity, scale)]

CalculateOptimalSpread ==
    /\ quote.pc = "ready"
    /\ quote' = IF RLe(quote.mid_price, Zero)
                THEN [quote EXCEPT !.pc = "raised", !.call = "calculate_optimal_spread",
                                   !.error = "ValueError",
                                   !.message = "Mid price must be positive"]
                ELSE LET r == calculate_optimal_spread(quote.params, quote.mid_price,
                                                       quote.inventory, quote.time_to_maturity)
                     IN  [quote EXCEPT !.pc = "returned", !.call = "calculate_optimal_spread",
                                       !.bid_price = r.bid_price, !.ask_price = r.ask_price]
    /\ UNCHANGED <<runVars, mm>>

CalculateOptimalQuantities ==
    /\ quote.pc = "ready"
    /\ LET r == calculate_optimal_quantities(quote.params, quote.mid_price, quote.inventory,
                                             quote.max_inventory, quote.base_quantity,
                                             quote.time_to_maturity)
       IN  quote' = IF r.error # ""
                    THEN [quote EXCEPT !.pc = "raised", !.call = "calculate_optimal_quantities",
                                       !.error = r.error, !.message = r.message]
                    ELSE [quote EXCEPT !.pc = "returned",
                                       !.call = "calculate_optimal_quantities",
                                       !.bid_price = r.bid_price, !.ask_price = r.ask_price,
                                       !.bid_quantity = r.bid_quantity,
                                       !.ask_quantity = r.ask_quantity]
    /\ UNCHANGED <<runVars, mm>>

CalculateSpread ==
    /\ quote.pc = "ready"
    /\ quote' = [quote EXCEPT !.pc = "returned_spread", !.call = "calculate_spread",
                              !.spread = calculate_spread(quote.params, quote.inventory,
                                                          quote.time_to_maturity)]
    /\ UNCHANGED <<runVars, mm>>

NextQuote ==
    \/ Construct
    \/ CalculateOptimalSpread
    \/ CalculateSpread
    \/ CalculateOptimalQuantities

SpecQuote == InitQuote /\ [][NextQuote]_vars

\* calls of calculate_optimal_quantities across the inventory ratios 0 .. 2.5
QuantityParams ==
    [risk_aversion : {Frac(1, 2)}, volatility : {One},
     arrival_rate : {One, Num(10)}, reservation_spread : {Zero, One}]

QuantityInventories ==
    LET sizes == {Frac(1, 10), Num(5), Num(8), Frac(17, 2), Num(9), Num(10), Num(12), Num(13),
                  Num(15), Num(25)}
    IN  {Zero} \cup sizes \cup {RNeg(s) : s \in sizes}

InitQuantities ==
    /\ quote \in [pc : {"new"}, params : QuantityParams,
                   mid_price : {Num(-100), Zero, Num(100)},
                   inventory : QuantityInventories,
                   time_to_maturity : {One},
                   max_inventory : {Num(-10), Zero, Num(10), Num(20)},
                   base_quantity : {Num(-1), Zero, One, Num(2)},
                   call : {""}, bid_price : {Unbound}, ask_price : {Unbound},
                   bid_quantity : {Unbound}, ask_quantity : {Unbound}, spread : {Unbound},
                   error : {""}, message : {""}]
    /\ engine = DefaultRates
    /\ prices = [cols |-> PriceColumns, rows |-> <<>>]
    /\ signals = [cols |-> SignalColumns, rows |-> <<>>]
    /\ initial_capital = Zero
    /\ start_date = NoDate
    /\ end_date = NoDate
    /\ Locals
    /\ mm = NoService

SpecQuantities == InitQuantities /\ [][NextQuote]_vars

(***************************************************************************)
(* MarketMakingService with its PositionManager and OrderManager, and      *)
(* StartMarketMaking.execute on top of it.  An Optional value is a         *)
(* sequence: <<>> for None, <<v>> for the value v.  Every call of          *)
(* execute is one step: its awaits are the exchange calls, whose outcomes  *)
(* are inputs of the step.                                                 *)
(***************************************************************************)
MaxOrders == 2

PositionSizes == {Num(5), Frac(17, 2), Num(9), Num(10), Num(-10)}

\* PositionManager.get_position(symbol) and the "position.size if position else 0.0" on it
CurrentInventory(symbol) ==
    IF symbol \in DOMAIN mm.positions THEN mm.positions[symbol].size ELSE Zero

\* PositionManager.update_position(symbol, size=size)
update_position(symbol, size) ==
    IF symbol \in DOMAIN mm.positions
    THEN With(mm.positions, symbol, update_pnl([mm.positions[symbol] EXCEPT !.size = size]))
    ELSE mm.positions

calculate_quotes(symbol, mid_price, base_quantity, max_inventory, time_to_maturity) ==
    LET inventory == CurrentInventory(symbol)
        q == calculate_optimal_quantities(mm.params, mid_price, inventory, max_inventory,
                                          base_quantity, time_to_maturity)
    IN  IF RLe(mid_price, Zero) THEN Raised("ValueError", "Mid price must be positive")
        ELSE IF q.error # "" THEN Raised(q.error, q.message)
        ELSE LET p == calculate_optimal_spread(mm.params, mid_price, inventory,
                                               time_to_maturity)
             IN  [error |-> "", message |-> "",
                  bid_price |-> p.bid_price, ask_price |-> p.ask_price,
                  bid_quantity |-> q.bid_quantity, ask_quantity |-> q.ask_quantity,
                  inventory |-> inventory, spread |-> RSub(p.ask_price, p.bid_price)]

ChangeExceeds_Inclusive(new, current, min_spread_change) ==
    IF RGt(current, Zero)
    THEN RGe(RDiv(RAbs(RSub(new, current)), current), min_spread_change)
    ELSE TRUE

\* bid_change > min_spread_change, where bid_change is float("inf") for a
\* current price <= 0
ChangeExceeds(new, current, min_spread_change) ==
    IF RGt(current, Zero)
    THEN RGt(RDiv(RAbs(RSub(new, current)), current), min_spread_change)
    ELSE TRUE

should_adjust_quotes(current_bid, current_ask, new_bid, new_ask, min_spread_change) ==
    IF current_bid = <<>> \/ current_ask = <<>>
    THEN TRUE
    ELSE \/ ChangeExceeds(new_bid, current_bid[1], min_spread_change)
         \/ ChangeExceeds(new_ask, current_ask[1], min_spread_change)

\* Order.is_open
is_open(order) == order.status \in {"PENDING", "OPEN", "PARTIALLY_FILLED"}

FirstOrNone(s) == IF s = <<>> THEN <<>> ELSE <<s[1]>>

get_maker_orders(symbol) ==
    LET open_orders == SelectSeq(mm.orders,
                                 LAMBDA o : o.symbol = symbol /\ is_open(o) /\ o.post_only)
    IN  [bid_order |-> FirstOrNone(SelectSeq(open_orders, LAMBDA o : o.side = "BUY")),
         ask_order |-> FirstOrNone(SelectSeq(open_orders, LAMBDA o : o.side = "SELL"))]

ShouldReduce_Inclusive(inventory_ratio) == RGe(inventory_ratio, Frac(9, 10))

ShouldReduce(inventory_ratio) == RGt(inventory_ratio, Frac(9, 10))

AtLimit_Strict(inventory_ratio) == RGt(inventory_ratio, One)

AtLimit(inventory_ratio) == RGe(inventory_ratio, One)

check_inventory_limits(symbol, max_inventory, warning_threshold) ==
    LET current_inventory == CurrentInventory(symbol)
        inventory_ratio == IF RGt(max_inventory, Zero)
                           THEN RDiv(RAbs(current_inventory), max_inventory) ELSE Zero
    IN  [symbol |-> symbol,
         current_inventory |-> current_inventory,
         max_inventory |-> max_inventory,
         inventory_ratio |-> inventory_ratio,
         is_at_limit |-> AtLimit(inventory_ratio),
         is_near_limit |-> RGe(inventory_ratio, warning_threshold),
         should_reduce |-> ShouldReduce(inventory_ratio)]

\* OrderManager.cancel_order(order_id)
cancel_order(orders, order_id) ==
    [i \in 1..Len(orders) |->
        IF orders[i].id = order_id /\ is_open(orders[i])
        THEN [orders[i] EXCEPT !.status = "CANCELLED"] ELSE orders[i]]

\* the Order exchange.place_order returns for a post-only limit order
PlacedOrder(id, symbol, side, quantity, price) ==
    [id |-> id, symbol |-> symbol, side |-> side, quantity |-> quantity, price |-> price,
     order_type |-> "LIMIT", status |-> "OPEN", post_only |-> TRUE]

PriceOf(order) == IF order = <<>> THEN <<>> ELSE <<order[1].price>>

\* One "if order: try: await exchange.cancel_order(order.id);
\* order_manager.cancel_order(order.id) except: log" block; s is the order list
\* and the exchange calls so far.
CancelExisting(s, order, succeeds) ==
    IF order = <<>> THEN s
    ELSE [s EXCEPT !.exchange = Append(@, [op |-> "cancel_order", id |-> order[1].id]),
                   !.orders = IF succeeds THEN cancel_order(@, order[1].id) ELSE @]

\* One "if quantity > 0: order = await exchange.place_order(...);
\* order_manager.add_order(order); placed_orders[key] = order" block, skipped
\* once an earlier placement has raised.
PlaceNew(s, key, symbol, side, quantity, price, succeeds) ==
    IF s.error # "" \/ ~RGt(quantity, Zero) THEN s
    ELSE LET call == [op |-> "place_order", symbol |-> symbol, side |-> side,
                      quantity |-> quantity, price |-> price]
             order == PlacedOrder(Len(s.orders) + 1, symbol, side, quantity, price)
         IN  IF succeeds
             THEN [s EXCEPT !.exchange = Append(@, call),
                            !.orders = Append(@, order),
                            !.placed = With(@, key, order)]
             ELSE [s EXCEPT !.exchange = Append(@, call), !.error = "APIError",
                            !.message = "place_order failed"]

\* lines 102-153 of execute: cancel the resting orders, place the new ones
Requote(symbol, quotes, maker, cancels, places) ==
    CHOOSE s4 \in
        {PlaceNew(s3, "ask_order", symbol, "SELL", quotes.ask_quantity, quotes.ask_price,
                  places.ask) :
            s3 \in {PlaceNew(s2, "bid_order", symbol, "BUY", quotes.bid_quantity,
                             quotes.bid_price, places.bid) :
                s2 \in {CancelExisting(s1, maker.ask_order, cancels.ask) :
                    s1 \in {CancelExisting([orders |-> mm.orders, exchange |-> <<>>,
                                            error |-> "", message |-> "", placed |-> <<>>],
                                           maker.bid_order, cancels.bid)}}}} : TRUE

Untouched(raised, message, placed) ==
    [orders |-> mm.orders, exchange |-> <<>>, error |-> raised, message |-> message,
     placed |-> placed]

AlreadyOptimal(maker, quotes) ==
    /\ maker.bid_order # <<>>
    /\ maker.ask_order # <<>>
    /\ ~should_adjust_quotes(PriceOf(maker.bid_order), PriceOf(maker.ask_order),
                             quotes.bid_price, quotes.ask_price, Frac(1, 1000))

\* lines 79-153 of execute, after the inventory check
QuoteAndPlace(symbol, quotes, maker, cancels, places) ==
    IF quotes.error # "" THEN Untouched(quotes.error, quotes.message, <<>>)
    ELSE IF AlreadyOptimal(maker, quotes)
    THEN Untouched("", "", [k \in {"bid_order", "ask_order"} |->
                               IF k = "bid_order" THEN maker.bid_order[1]
                               ELSE maker.ask_order[1]])
    ELSE Requote(symbol, quotes, maker, cancels, places)

\* StartMarketMaking.execute; cancels and places say which exchange calls
\* succeed.  The value is the order manager's orders, the exchange calls made,
\* the error raised ("" for none) and the dictionary returned.
execute(symbol, mid_price, base_quantity, max_inventory, time_to_maturity, cancels, places) ==
    IF check_inventory_limits(symbol, max_inventory, Frac(8, 10)).is_at_limit
    THEN Untouched("ValueError", "Inventory at limit for " \o symbol, <<>>)
    ELSE CHOOSE r \in
            {QuoteAndPlace(symbol, quotes, maker, cancels, places) :
                quotes \in {calculate_quotes(symbol, mid_price, base_quantity, max_inventory,
                                             time_to_maturity)},
                maker \in {get_maker_orders(symbol)}} : TRUE

\* which exchange calls of one execute succeed: all of them, or all but one
ExchangeOutcomes ==
    LET ok == [bid |-> TRUE, ask |-> TRUE]
    IN  {[cancels |-> ok, places |-> ok]}
        \cup {[cancels |-> [ok EXCEPT ![k] = FALSE], places |-> ok] : k \in {"bid", "ask"}}
        \cup {[cancels |-> ok, places |-> [ok EXCEPT ![k] = FALSE]] : k \in {"bid", "ask"}}

\* the arguments of the calls
ServiceParams ==
    [risk_aversion |-> Frac(1, 2), volatility |-> One, arrival_rate |-> One,
     reservation_spread |-> Zero]

MidPrices == {Zero, Num(100)}

BaseQuantities == {Zero, One}

MaxInventories == {Zero, Num(10)}

WarningThresholds == {Frac(8, 10), Frac(95, 100)}

AddPosition ==
    \* PositionManager.add_position(Position(symbol, size, entry_price, mark_price))
    \E size \in PositionSizes :
        /\ mm.call.op # "none"
        /\ mm' = [mm EXCEPT !.positions = With(mm.positions, "BTC",
                                                NewPosition(size, Num(100), Num(100))),
                            !.exchange = <<>>,
                            !.call = [op |-> "add_position", symbol |-> "BTC"]]
        /\ UNCHANGED <<runVars, quote>>

UpdatePosition ==
    \E symbol \in Symbols, size \in {Num(5), Num(10)} :
        /\ mm.call.op # "none"
        /\ mm' = [mm EXCEPT !.positions = update_position(symbol, size),
                            !.exchange = <<>>,
                            !.call = [op |-> "update_position", symbol |-> symbol]]
        /\ UNCHANGED <<runVars, quote>>

CalculateQuotes ==
    \E symbol \in Symbols, mid_price \in MidPrices, base_quantity \in BaseQuantities,
       max_inventory \in MaxInventories :
        /\ Cardinality({mid_price, base_quantity, max_inventory} \cap {Zero}) <= 1
        /\ mm.call.op # "none"
        /\ mm' = [mm EXCEPT !.exchange = <<>>,
                            !.call = [op |-> "calculate_quotes", symbol |-> symbol,
                                      mid_price |-> mid_price,
                                      base_quantity |-> base_quantity,
                                      max_inventory |-> max_inventory,
                                      result |-> calculate_quotes(symbol, mid_price,
                                                                  base_quantity,
                                                                  max_inventory, One)]]
        /\ UNCHANGED <<runVars, quote>>

ShouldAdjustQuotes ==
    \E current_bid \in {<<>>, <<Zero>>, <<Num(100)>>}, current_ask \in {<<>>, <<Num(200)>>},
       new_bid \in {Num(99), Num(100), Num(102)}, new_ask \in {Num(202), Num(203)},
       min_spread_change \in {Frac(1, 100)} :
        /\ mm.call.op # "none"
        /\ mm' = [mm EXCEPT !.exchange = <<>>,
                            !.call = [op |-> "should_adjust_quotes",
                                      current_bid |-> current_bid,
                                      current_ask |-> current_ask,
                                      new_bid |-> new_bid, new_ask |-> new_ask,
                                      min_spread_change |-> min_spread_change,
                                      result |-> should_adjust_quotes(current_bid, current_ask,
                                                                      new_bid, new_ask,
                                                                      min_spread_change)]]
        /\ UNCHANGED <<runVars, quote>>

CheckInventoryLimits ==
    \E symbol \in Symbols, max_inventory \in MaxInventories,
       warning_threshold \in WarningThresholds :
        /\ mm.call.op # "none"
        /\ mm' = [mm EXCEPT !.exchange = <<>>,
                            !.call = [op |-> "check_inventory_limits", symbol |-> symbol,
                                      max_inventory |-> max_inventory,
                                      warning_threshold |-> warning_threshold,
                                      result |-> check_inventory_limits(symbol, max_inventory,
                                                                        warning_threshold)]]
        /\ UNCHANGED <<runVars, quote>>

Execute ==
    \E mid_price \in MidPrices, base_quantity \in BaseQuantities,
       max_inventory \in MaxInventories, outcome \in ExchangeOutcomes :
        \E r \in {execute("BTC", mid_price, base_quantity, max_inventory, One,
                          outcome.cancels, outcome.places)} :
            /\ Cardinality({mid_price, base_quantity, max_inventory} \cap {Zero}) <= 1
            /\ base_quantity = One
            /\ mm.call.op # "none"
            /\ Len(r.orders) > Len(mm.orders) => Len(mm.orders) < MaxOrders
            /\ mm' = [mm EXCEPT !.orders = r.orders,
                                !.exchange = r.exchange,
                                !.call = [op |-> "execute", symbol |-> "BTC",
                                          mid_price |-> mid_price,
                                          base_quantity |-> base_quantity,
                                          max_inventory |-> max_inventory,
                                          error |-> r.error, message |-> r.message,
                                          result |-> r.placed]]
            /\ UNCHANGED <<runVars, quote>>

\* calls of the service's own methods
NextService ==
    \/ AddPosition
    \/ UpdatePosition
    \/ CalculateQuotes
    \/ ShouldAdjustQuotes
    \/ CheckInventoryLimits

\* calls of the use case, between changes of the tracked position
NextUseCase ==
    \/ AddPosition
    \/ UpdatePosition
    \/ Execute

InitService ==
    /\ mm = [params |-> ServiceParams, positions |-> <<>>, orders |-> <<>>,
             exchange |-> <<>>, call |-> [op |-> "__init__"]]
    /\ quote = NoQuote
    /\ engine = DefaultRates
    /\ prices = [cols |-> PriceColumns, rows |-> <<>>]
    /\ signals = [cols |-> SignalColumns, rows |-> <<>>]
    /\ initial_capital = Zero
    /\ start_date = NoDate
    /\ end_date = NoDate
    /\ Locals

SpecService == InitService /\ [][NextService]_vars

SpecUseCase == InitService /\ [][NextUseCase]_vars



(***************************************************************************)
(* Properties of the engine.                                               *)
(***************************************************************************)
Created == capital # Unbound

HasPriceRow(timestamp, symbol) ==
    \E i \in 1..Len(fprices) : fprices[i].timestamp = timestamp /\ fprices[i].symbol = symbol

CloseAt(timestamp, symbol) ==
    fprices[CHOOSE i \in 1..Len(fprices) :
                /\ fprices[i].timestamp = timestamp /\ fprices[i].symbol = symbol
                /\ \A j \in 1..(i - 1) :
                       ~(fprices[j].timestamp = timestamp /\ fprices[j].symbol = symbol)].close

\* cost + commission_cost of a BUY row at the close of its bar:
\* close * (1 + slippage * (1 + quantity/100)) * quantity * (1 + commission)
BuyTotalCost(timestamp, row) ==
    RMul(RMul(RMul(CloseAt(timestamp, row.symbol),
                   RAdd(One, RMul(engine.slippage, RAdd(One, RDiv(row.quantity, Num(100)))))),
              row.quantity),
         RAdd(One, engine.commission))

\* C1: a BUY row whose cost + commission_cost exceeds the current capital is
\* skipped: capital, positions and trades are exactly what they were, no error
\* is raised, and the loop goes on with the next row.
C1_AdmissionControlSkips ==
    [][(/\ pc = "signals"
        /\ queue # <<>>
        /\ Head(queue).side = "BUY"
        /\ HasPriceRow(timeline[ti], Head(queue).symbol)
        /\ RGt(BuyTotalCost(timeline[ti], Head(queue)), capital))
       => (/\ capital' = capital
           /\ positions' = positions
           /\ trades' = trades
           /\ equity_curve' = equity_curve
           /\ error' = NoError
           /\ pc' = "signals"
           /\ queue' = Tail(queue))]_vars

C1_Witness ==
    /\ lastSignal.outcome = "insufficient_capital"
    /\ lastSignal.row.symbol \in DOMAIN positions

\* C2: a BUY of quantity Q that opened a position, followed by a SELL of the
\* same quantity with no other row for that symbol in between, appends exactly
\* one trade record, of quantity Q, and removes the symbol from positions.
C2_RoundTrip ==
    [][(/\ pc = "signals"
        /\ queue # <<>>
        /\ Head(queue).side = "SELL"
        /\ HasPriceRow(timeline[ti], Head(queue).symbol)
        /\ lastFor[Head(queue).symbol].outcome = "opened"
        /\ lastFor[Head(queue).symbol].row.side = "BUY"
        /\ lastFor[Head(queue).symbol].row.quantity = Head(queue).quantity)
       => (/\ Len(trades') = Len(trades) + 1
           /\ SubSeq(trades', 1, Len(trades)) = trades
           /\ trades'[Len(trades')].quantity = Head(queue).quantity
           /\ trades'[Len(trades')].symbol = Head(queue).symbol
           /\ Head(queue).symbol \notin DOMAIN positions'
           /\ DOMAIN positions' = DOMAIN positions \ {Head(queue).symbol})]_vars

C2_Witness ==
    /\ lastSignal.outcome = "closed"
    /\ lastSignal.row.side = "SELL"
    /\ Len(trades) = 1
    /\ trades[1].quantity = lastSignal.row.quantity
    /\ lastSignal.row.timestamp > 1

\* C7: a run with zero signal rows returns final_capital = initial_capital and
\* total_trades = 0; as long as no signal has been executed, every entry of
\* equity_curve equals initial_capital.
C7_EmptySignals ==
    /\ (signals.rows = <<>> => executed = 0)
    /\ (Created /\ executed = 0) =>
           \A i \in 1..Len(equity_curve) : equity_curve[i] = initial_capital
    /\ (pc = "done" /\ executed = 0) =>
           /\ result.final_capital = initial_capital
           /\ result.total_trades = 0
           /\ result.equity_curve = equity_curve

C7_Witness ==
    /\ pc = "done"
    /\ signals.rows = <<>>
    /\ Len(prices.rows) > 0
    /\ Len(equity_curve) > 3

Observable == Created /\ pc \in {"signals", "snapshot", "mark", "metrics", "done"}

\* C3 as stated: every position of the positions map has
\* unrealized_pnl = size * (mark_price - entry_price).
C3_PnlFormulaAlways ==
    Observable =>
        \A x \in DOMAIN positions :
            positions[x].unrealized_pnl =
                RMul(positions[x].size,
                     RSub(positions[x].mark_price, positions[x].entry_price))

\* C3 amended: every position with |size| >= 1e-8 has
\* unrealized_pnl = size * (mark_price - entry_price); a position with
\* |size| < 1e-8 has unrealized_pnl = 0.
C3_PnlFormulaUnlessFlat ==
    Observable =>
        \A x \in DOMAIN positions :
            positions[x].unrealized_pnl =
                IF RLt(RAbs(positions[x].size), Frac(1, 100000000))
                THEN Zero
                ELSE RMul(positions[x].size,
                          RSub(positions[x].mark_price, positions[x].entry_price))

C3_Witness ==
    /\ pc = "snapshot"
    /\ lastSignal.outcome \in {"added", "reduced"}
    /\ \E x \in DOMAIN positions :
           /\ positions[x].unrealized_pnl # Zero
           /\ positions[x].mark_price # positions[x].entry_price
           /\ x = lastSignal.row.symbol

\* the distinct timestamps of the price rows lying in [start_date, end_date]
RangeTimestamps ==
    {prices.rows[i].timestamp :
        i \in {j \in 1..Len(prices.rows) :
                  /\ (start_date = NoDate \/ prices.rows[j].timestamp >= start_date)
                  /\ (end_date = NoDate \/ prices.rows[j].timestamp <= end_date)}}

EquityShape ==
    /\ Created => equity_curve[1] = initial_capital
    /\ pc = "snapshot" =>
           Cardinality({t \in RangeTimestamps : t < timeline[ti]}) = Len(equity_curve) - 1
    /\ pc \in {"metrics", "done"} => Len(equity_curve) = Cardinality(RangeTimestamps) + 1
    /\ pc = "done" => result.equity_curve = equity_curve

EquityAppendOnly ==
    Created => /\ Len(equity_curve') \in {Len(equity_curve), Len(equity_curve) + 1}
               /\ SubSeq(equity_curve', 1, Len(equity_curve)) = equity_curve

\* C4: equity_curve[0] is initial_capital; one further entry is appended per
\* distinct price timestamp of the filtered range, in ascending timestamp
\* order; an entry once appended is never modified.
C4_EquityCurveShape == [](EquityShape) /\ [][EquityAppendOnly]_vars

C4_Witness ==
    /\ pc = "done"
    /\ executed > 0
    /\ Cardinality(RangeTimestamps) >= 2
    /\ Len(prices.rows) > Cardinality(RangeTimestamps) + 1
    /\ prices.rows[1].timestamp > prices.rows[Len(prices.rows)].timestamp
    /\ equity_curve[Len(equity_curve)] # initial_capital

StateUncreated ==
    /\ capital = Unbound
    /\ positions = Unbound
    /\ trades = Unbound
    /\ equity_curve = Unbound
    /\ result = Unbound

WellFormed ==
    /\ PriceColumns \subseteq prices.cols
    /\ SignalColumns \subseteq signals.cols
    /\ \A i \in 1..Len(prices.rows) : prices.rows[i].timestamp # BadTimestamp
    /\ \A i \in 1..Len(signals.rows) : signals.rows[i].timestamp # BadTimestamp

OffendingSides ==
    {signals.rows[i].side : i \in 1..Len(signals.rows)} \ {"BUY", "SELL"}

\* C8: when a row of the signal series, inside or outside the requested range,
\* has a side other than "BUY" or "SELL", run() raises InvalidDataError and
\* returns nothing, before capital, positions, trades or equity_curve exist;
\* with the columns present and the timestamps parseable the error names
\* exactly the offending side values.
C8_SideValidation ==
    (OffendingSides # {} /\ pc # "start") =>
        /\ pc = "raised"
        /\ error.type = "InvalidDataError"
        /\ StateUncreated
        /\ WellFormed => /\ error.message = "Invalid side values"
                         /\ error.values = OffendingSides

C8_Witness ==
    /\ pc = "raised"
    /\ error.message = "Invalid side values"
    /\ start_date # NoDate
    /\ \E i \in 1..Len(signals.rows) :
           /\ signals.rows[i].side = "HOLD"
           /\ signals.rows[i].timestamp < start_date
    /\ \A i \in 1..Len(signals.rows) :
           signals.rows[i].timestamp >= start_date => signals.rows[i].side \in {"BUY", "SELL"}

\* C9: when the inputs pass validation and no price row has its timestamp in
\* [start_date, end_date], run() raises BacktestError before any simulation
\* state exists; when a price row lies in the range, also exactly on one of
\* its ends, the run proceeds.
C9_EmptyRange ==
    (WellFormed /\ OffendingSides = {} /\ pc \notin {"start", "filter"}) =>
        IF RangeTimestamps = {}
        THEN pc = "raised" /\ error.type = "BacktestError" /\ StateUncreated
        ELSE pc # "raised" /\ error = NoError

C9_Witness ==
    /\ pc = "raised"
    /\ error.type = "BacktestError"
    /\ Len(prices.rows) > 0
    /\ start_date # NoDate
    /\ end_date # NoDate

Rising == prices.rows[Len(prices.rows)].close # prices.rows[1].close

\* C5: buy-and-hold over the rising series returns final_capital >
\* initial_capital and total_return > 0.
C5_BuyAndHoldProfitable ==
    (pc = "done" /\ Rising) =>
        /\ RGt(result.final_capital, result.initial_capital)
        /\ RGt(result.total_return, Zero)

\* what the flat scenario says apart from the entry price
FlatScenario(entry) ==
    /\ (Created /\ (ti > 1 \/ pc \in {"snapshot", "metrics", "done"}
                        \/ (pc = "signals" /\ queue = <<>>))) => executed = 1
    /\ executed >= 1 =>
           /\ DOMAIN positions = {"BTC"}
           /\ positions["BTC"].size = One
           /\ positions["BTC"].entry_price = entry
    /\ (pc = "signals" /\ ti = 1 /\ queue = <<>>) =>
           capital = RSub(RSub(Num(HoldCapital), RMul(entry, One)),
                          RMul(RMul(entry, One), Frac(2, 10000)))
    /\ Created => trades = <<>>
    /\ pc = "done" =>
           /\ result.total_trades = 0
           /\ RLt(result.final_capital, result.initial_capital)

\* C6 as stated: in the flat scenario the position opened at bar 0 has
\* entry_price = 50000 * 1.001.
C6_FlatScenarioAsStated ==
    ~Rising => FlatScenario(RMul(Num(50000), Frac(1001, 1000)))

\* C6 amended: entry_price = 50000 * (1 + 0.001 * (1 + 1.0/100)) = 50050.5;
\* the capital after the BUY is initial_capital - cost - commission_cost with
\* cost = entry_price * 1.0 and commission_cost = cost * 0.0002; no trade is
\* recorded and final_capital < initial_capital.
C6_FlatScenario ==
    ~Rising => FlatScenario(RMul(Num(50000),
                                 RAdd(One, RMul(Frac(1, 1000), RAdd(One, Frac(1, 100))))))

C6_Witness ==
    /\ ~Rising
    /\ pc = "done"
    /\ DOMAIN positions = {"BTC"}
    /\ positions["BTC"].entry_price = Frac(100101, 2)
    /\ Len(equity_curve) = 101

\* C10: for accepted parameters and mid_price > 0, whatever the inventory and
\* the time_to_maturity, calculate_optimal_spread returns ask > bid with
\* ask - bid >= reservation_spread.
C10_SpreadOrdering ==
    quote.pc = "returned" =>
        /\ RGt(quote.ask_price, quote.bid_price)
        /\ RGe(RSub(quote.ask_price, quote.bid_price), quote.params.reservation_spread)

SpreadReturned == quote.pc = "returned" /\ quote.call = "calculate_optimal_spread"

QuantitiesReturned == quote.pc = "returned" /\ quote.call = "calculate_optimal_quantities"

\* gamma * sigma^2 * inventory * time_to_maturity of the call in quote
SkewTerm ==
    RMul(RMul(RMul(quote.params.risk_aversion, quote.params.volatility),
              quote.params.volatility),
         RMul(quote.inventory, quote.time_to_maturity))

\* C11: for mid_price > 0 and time_to_maturity > 0 the midpoint (bid + ask)/2 of
\* the returned quotes is mid_price - gamma*sigma^2*inventory*time_to_maturity,
\* which is below mid_price for a long inventory, above it for a short one and
\* equal to it for a flat one.
C11_InventorySkew ==
    (SpreadReturned /\ RGt(quote.time_to_maturity, Zero)) =>
        LET midpoint == RDiv(RAdd(quote.bid_price, quote.ask_price), Num(2))
        IN  /\ midpoint = RSub(quote.mid_price, SkewTerm)
            /\ RGt(quote.inventory, Zero) => RLt(midpoint, quote.mid_price)
            /\ RLt(quote.inventory, Zero) => RGt(midpoint, quote.mid_price)
            /\ quote.inventory = Zero => midpoint = quote.mid_price

C11_Witness ==
    /\ SpreadReturned
    /\ quote.time_to_maturity = Frac(1, 2)
    /\ RGt(quote.inventory, Zero)
    /\ RLt(quote.bid_price, quote.ask_price)
    /\ RLt(RAdd(quote.bid_price, quote.ask_price), RMul(Num(2), quote.mid_price))

\* |inventory| / max_inventory of the call in quote (max_inventory > 0)
QuoteRatio == RDiv(RAbs(quote.inventory), quote.max_inventory)

SkewUp == RMul(quote.base_quantity, RAdd(One, RMul(Frac(1, 2), QuoteRatio)))

SkewDown == RMul(quote.base_quantity, RSub(One, RMul(Frac(1, 2), QuoteRatio)))

C14_Dampening ==
    QuantitiesReturned =>
        /\ (QuoteRatio = One /\ RGt(quote.inventory, Zero)) =>
               /\ quote.bid_quantity = RMul(Frac(9, 10), quote.base_quantity)
               /\ quote.ask_quantity = RMul(Frac(3, 10), quote.base_quantity)
        /\ (QuoteRatio = One /\ RLt(quote.inventory, Zero)) =>
               /\ quote.bid_quantity = RMul(Frac(3, 10), quote.base_quantity)
               /\ quote.ask_quantity = RMul(Frac(9, 10), quote.base_quantity)
        /\ QuoteRatio = One =>
               /\ quote.bid_quantity = RMul(Frac(6, 10), RMax(Zero,
                       IF RGt(quote.inventory, Zero) THEN SkewUp ELSE SkewDown))
               /\ quote.ask_quantity = RMul(Frac(6, 10), RMax(Zero,
                       IF RGt(quote.inventory, Zero) THEN SkewDown ELSE SkewUp))
        /\ RLe(QuoteRatio, Frac(8, 10)) =>
               LET off == RMul(quote.base_quantity, RMul(Frac(1, 2), QuoteRatio))
               IN  /\ RAbs(RSub(quote.bid_quantity, quote.base_quantity)) = off
                   /\ RAbs(RSub(quote.ask_quantity, quote.base_quantity)) = off

C14_Witness ==
    /\ QuantitiesReturned
    /\ quote.inventory = Num(-10)
    /\ quote.max_inventory = Num(10)
    /\ quote.base_quantity = Num(2)
    /\ quote.bid_quantity = Frac(6, 10)
    /\ quote.ask_quantity = Frac(18, 10)

\* C15: whatever the inventory, also beyond twice max_inventory where
\* 1 - 0.5*ratio is negative, both returned quantities are >= 0.
C15_NonNegativeQuantities ==
    QuantitiesReturned =>
        /\ RGe(quote.bid_quantity, Zero)
        /\ RGe(quote.ask_quantity, Zero)

C15_Witness ==
    /\ QuantitiesReturned
    /\ RGt(RAbs(quote.inventory), RMul(Num(2), quote.max_inventory))
    /\ RLt(SkewDown, Zero)
    /\ quote.ask_quantity = Zero
    /\ RGt(quote.bid_quantity, Zero)

NothingReturned ==
    /\ quote.bid_price = Unbound
    /\ quote.ask_price = Unbound
    /\ quote.bid_quantity = Unbound
    /\ quote.ask_quantity = Unbound

\* C18: calculate_optimal_spread raises ValueError for every mid_price <= 0,
\* calculate_optimal_quantities raises it for every base_quantity <= 0 and for
\* every max_inventory <= 0; the error is that call's own and no price or
\* quantity is returned.
C18_ArgumentErrors ==
    /\ (quote.call = "calculate_optimal_spread" /\ RLe(quote.mid_price, Zero)) =>
           /\ quote.pc = "raised"
           /\ quote.error = "ValueError"
           /\ quote.message = "Mid price must be positive"
           /\ NothingReturned
    /\ (quote.call = "calculate_optimal_quantities" /\ RLe(quote.base_quantity, Zero)) =>
           /\ quote.pc = "raised"
           /\ quote.error = "ValueError"
           /\ quote.message = "Base quantity must be positive"
           /\ NothingReturned
    /\ (quote.call = "calculate_optimal_quantities" /\ RLe(quote.max_inventory, Zero)) =>
           /\ quote.pc = "raised"
           /\ quote.error = "ValueError"
           /\ quote.message \in {"Base quantity must be positive",
                                  "Max inventory must be positive"}
           /\ NothingReturned

C18_Witness ==
    /\ quote.call = "calculate_optimal_quantities"
    /\ quote.base_quantity = One
    /\ quote.max_inventory = Zero
    /\ RGt(quote.mid_price, Zero)
    /\ quote.pc = "raised"
    /\ quote.message = "Max inventory must be positive"

PnlsOver(P(_)) == Cardinality({i \in 1..Len(trades) : P(trades[i].pnl)})

IsPositive(x) == RGt(x, Zero)

IsNegative(x) == RLt(x, Zero)

\* C19: in the result of a completed run total_trades is the length of the
\* trade log, winning_trades and losing_trades count the trades with pnl > 0
\* and pnl < 0 (a trade with pnl = 0 is in neither), win_rate is
\* winning/total*100 within [0, 100] and 0 without trades, profit_factor is
\* >= 0 and 0 when nothing was lost, max_drawdown is >= 0.
C19_MetricRanges ==
    pc = "done" =>
        /\ result.total_trades = Len(trades)
        /\ result.winning_trades = PnlsOver(IsPositive)
        /\ result.losing_trades = PnlsOver(IsNegative)
        /\ result.winning_trades + result.losing_trades <= result.total_trades
        /\ RGe(result.win_rate, Zero) /\ RLe(result.win_rate, Num(100))
        /\ IF Len(trades) = 0
           THEN result.win_rate = Zero
           ELSE result.win_rate = Frac(100 * PnlsOver(IsPositive), Len(trades))
        /\ RGe(result.profit_factor, Zero)
        /\ PnlsOver(IsNegative) = 0 => result.profit_factor = Zero
        /\ RGe(result.max_drawdown, Zero)

C19_Witness ==
    /\ pc = "done"
    /\ Len(trades) = 1
    /\ trades[1].pnl = Zero
    /\ result.total_trades = 1
    /\ result.winning_trades = 0
    /\ result.losing_trades = 0

(***************************************************************************)
(* Properties of the market making service and use case.                   *)
(***************************************************************************)
QuotesReturned == mm.call.op = "calculate_quotes" /\ mm.call.result.error = ""

\* C13: for a symbol whose tracked position is long, calculate_quotes reports
\* the position's size as inventory and returns ask_quantity >= bid_quantity.
C13_LongInventoryQuotes ==
    (QuotesReturned /\ RGt(CurrentInventory(mm.call.symbol), Zero)) =>
        /\ mm.call.result.inventory = mm.positions[mm.call.symbol].size
        /\ RGe(mm.call.result.ask_quantity, mm.call.result.bid_quantity)

AdjustCalled == mm.call.op = "should_adjust_quotes"

RelativeChange(new, current) == RDiv(RAbs(RSub(new, current[1])), current[1])

LimitsChecked == mm.call.op = "check_inventory_limits"

\* |size| / max_inventory of the position now tracked for the symbol of the call
TrackedRatio ==
    RDiv(RAbs(IF mm.call.symbol \in DOMAIN mm.positions
              THEN mm.positions[mm.call.symbol].size ELSE Zero),
         mm.call.max_inventory)

\* C17: check_inventory_limits takes the ratio |size|/max_inventory from the
\* position tracked at the time of the call (0 without a position) and reports
\* is_at_limit iff ratio >= 1, is_near_limit iff ratio >= warning_threshold,
\* should_reduce iff ratio > 0.9, each on its own: is_at_limit implies
\* should_reduce, and at ratio 0.85 (threshold 0.8) is_near_limit holds while
\* should_reduce does not.
C17_InventoryLimits ==
    (LimitsChecked /\ RGt(mm.call.max_inventory, Zero)) =>
        LET status == mm.call.result
        IN  /\ status.inventory_ratio = TrackedRatio
            /\ mm.call.symbol \notin DOMAIN mm.positions => status.inventory_ratio = Zero
            /\ status.is_at_limit <=> RGe(TrackedRatio, One)
            /\ status.is_near_limit <=> RGe(TrackedRatio, mm.call.warning_threshold)
            /\ status.should_reduce <=> RGt(TrackedRatio, Frac(9, 10))
            /\ status.is_at_limit => status.should_reduce
            /\ (TrackedRatio = Frac(85, 100) /\ mm.call.warning_threshold = Frac(8, 10)) =>
                   status.is_near_limit /\ ~status.should_reduce

C17_Witness ==
    /\ LimitsChecked
    /\ mm.call.symbol = "BTC"
    /\ mm.call.max_inventory = Num(10)
    /\ mm.call.warning_threshold = Frac(8, 10)
    /\ "BTC" \in DOMAIN mm.positions
    /\ mm.positions["BTC"].size = Frac(17, 2)
    /\ mm.call.result.is_near_limit
    /\ ~mm.call.result.should_reduce
    /\ ~mm.call.result.is_at_limit

\* the step is a call of execute for a symbol whose |size|/max_inventory >= 1
ExecuteAtLimit ==
    /\ mm'.call.op = "execute"
    /\ RGt(mm'.call.max_inventory, Zero)
    /\ RGe(RAbs(CurrentInventory(mm'.call.symbol)), mm'.call.max_inventory)

\* C20: execute for a symbol whose inventory ratio is >= 1.0 raises ValueError
\* ("Inventory at limit") without any exchange cancel_order or place_order
\* call, and the order manager's orders are what they were.
C20_AtLimitRaises ==
    [][ExecuteAtLimit =>
          /\ mm'.call.error = "ValueError"
          /\ mm'.call.message = "Inventory at limit for BTC"
          /\ mm'.exchange = <<>>
          /\ mm'.orders = mm.orders
          /\ mm'.positions = mm.positions]_vars

C20_Witness ==
    /\ mm.call.op = "execute"
    /\ mm.call.error = "ValueError"
    /\ mm.call.message = "Inventory at limit for BTC"
    /\ mm.positions["BTC"].size = Num(-10)
    /\ mm.exchange = <<>>
    /\ Len(mm.orders) = 2
    /\ is_open(mm.orders[1])

(***************************************************************************)
(* Properties of the fills of BacktestEngine.run.                          *)
(***************************************************************************)
\* the signals are a BUY of Q and a later SELL of Q of the same symbol
IsRoundTrip(rows) ==
    /\ Len(rows) = 2
    /\ rows[1].side = "BUY" /\ rows[2].side = "SELL"
    /\ rows[1].symbol = rows[2].symbol
    /\ rows[1].quantity = rows[2].quantity
    /\ rows[1].timestamp < rows[2].timestamp

\* C21: with slippage, commission and funding_rate zero, a run whose signals
\* are a BUY of Q executed at close p1 and a later SELL of Q executed at close
\* p2 returns total_pnl = final_capital - initial_capital = Q * (p2 - p1), the
\* pnl of its one trade record; and every run that ends without an open
\* position returns total_pnl = the sum of pnl over the trade log.
C21_PnlConservation ==
    (pc = "done" /\ engine = ZeroRates) =>
        /\ (IsRoundTrip(fsignals) /\ executed = 2) =>
               /\ Len(trades) = 1
               /\ result.total_pnl = RSub(result.final_capital, initial_capital)
               /\ result.total_pnl = trades[1].pnl
               /\ result.total_pnl =
                      RMul(fsignals[1].quantity,
                           RSub(CloseAt(fsignals[2].timestamp, fsignals[2].symbol),
                                CloseAt(fsignals[1].timestamp, fsignals[1].symbol)))
        /\ DOMAIN positions = {} => result.total_pnl = SumPnl(trades)

\* the close of the row's symbol at the current timestamp, moved by the
\* slippage of the row's side and quantity
FillPrice(row) ==
    LET factor == RMul(engine.slippage, RAdd(One, RDiv(row.quantity, Num(100))))
    IN  RMul(CloseAt(timeline[ti], row.symbol),
             IF row.side = "BUY" THEN RAdd(One, factor) ELSE RSub(One, factor))

FillCost(row) == RMul(FillPrice(row), row.quantity)

FillCommission(row) == RMul(FillCost(row), engine.commission)

\* what the fill pays (negative) or receives for the traded quantity
CashFlow(row) ==
    IF row.side = "BUY"
    THEN RNeg(RAdd(FillCost(row), FillCommission(row)))
    ELSE RSub(FillCost(row), FillCommission(row))

\* the next step of the signal loop executes the head of the queue
Executes ==
    /\ pc = "signals"
    /\ queue # <<>>
    /\ HasPriceRow(timeline[ti], Head(queue).symbol)
    /\ ~(Head(queue).side = "BUY"
          /\ RGt(RAdd(FillCost(Head(queue)), FillCommission(Head(queue))), capital))

Opposes(row) ==
    /\ row.symbol \in DOMAIN positions
    /\ \/ (RGt(positions[row.symbol].size, Zero) /\ row.side = "SELL")
       \/ (RLt(positions[row.symbol].size, Zero) /\ row.side = "BUY")

\* the size of the symbol's position after the step, 0 when it was removed
SizeAfter(symbol) == IF symbol \in DOMAIN positions' THEN positions'[symbol].size ELSE Zero

ClosedSize(row) == RAbs(RSub(positions[row.symbol].size, SizeAfter(row.symbol)))

Realized(row) ==
    RMul(ClosedSize(row), RSub(FillPrice(row), positions[row.symbol].entry_price))

\* C22: an executed signal appends a trade record exactly when a position of
\* its symbol exists and the signal opposes it; then realized_pnl =
\* closed_size * (execution_price - entry_price) with closed_size =
\* |size - new_size| is added to capital and to the position's realized_pnl,
\* and the record carries closed_size, the entry_price before the fill, the
\* execution price and the commission of the fill; other fills append nothing
\* and no step changes a record of the log.
C22_RealizingPnl ==
    /\ [][Executes =>
            (IF Opposes(Head(queue))
             THEN /\ trades' = Append(trades,
                                      [timestamp |-> timeline[ti],
                                       symbol |-> Head(queue).symbol,
                                       side |-> Head(queue).side,
                                       quantity |-> ClosedSize(Head(queue)),
                                       entry_price |-> positions[Head(queue).symbol].entry_price,
                                       exit_price |-> FillPrice(Head(queue)),
                                       pnl |-> Realized(Head(queue)),
                                       commission |-> FillCommission(Head(queue))])
                  /\ capital' = RAdd(RAdd(capital, Realized(Head(queue))), CashFlow(Head(queue)))
                  /\ Head(queue).symbol \in DOMAIN positions' =>
                         positions'[Head(queue).symbol].realized_pnl =
                             RAdd(positions[Head(queue).symbol].realized_pnl,
                                  Realized(Head(queue)))
             ELSE trades' = trades)]_vars
    /\ [][(pc \in {"mark", "signals", "snapshot"}) =>
             (Len(trades') >= Len(trades) /\ SubSeq(trades', 1, Len(trades)) = trades)]_vars

C22_Witness ==
    /\ lastSignal.outcome = "reduced"
    /\ lastSignal.row.side = "SELL"
    /\ lastSignal.row.quantity = Num(2)
    /\ Len(trades) = 1
    /\ trades[1].quantity = Num(2)
    /\ RLt(positions[lastSignal.row.symbol].size, Zero)

\* the next step executes a fill that removes the position of its symbol
FullyCloses ==
    /\ Executes
    /\ Opposes(Head(queue))
    /\ Head(queue).symbol \notin DOMAIN positions'

\* Position.update_pnl of the position before the fill, marked at the fill's price
MarkedAtFill(row) == update_pnl([positions[row.symbol] EXCEPT !.mark_price = FillPrice(row)])

\* C23: when a fill fully closes a position at execution price p, the pnl of
\* its trade record equals the unrealized pnl size * (p - entry_price) of the
\* position marked at p, for longs and shorts; covering a short below its
\* entry price books a pnl > 0.
C23_RealizedMatchesUnrealized ==
    [][FullyCloses =>
          /\ trades'[Len(trades')].pnl = MarkedAtFill(Head(queue)).unrealized_pnl
          /\ (/\ RLt(positions[Head(queue).symbol].size, Zero)
              /\ RLt(FillPrice(Head(queue)), positions[Head(queue).symbol].entry_price))
             => RGt(trades'[Len(trades')].pnl, Zero)]_vars

\* the fill leaves a position on the other side of zero
Flips(row) ==
    /\ Opposes(row)
    /\ row.symbol \in DOMAIN positions'
    /\ RLt(RMul(positions[row.symbol].size, positions'[row.symbol].size), Zero)

\* the fill leaves a smaller position on the same side
Reduces(row) ==
    /\ Opposes(row)
    /\ row.symbol \in DOMAIN positions'
    /\ RGt(RMul(positions[row.symbol].size, positions'[row.symbol].size), Zero)

\* the fill enlarges the position on its side
Enlarges(row) == row.symbol \in DOMAIN positions /\ ~Opposes(row)

\* (|size| * entry_price + quantity * execution_price) / |new size|
WeightedEntry(row) ==
    RDiv(RAdd(RMul(RAbs(positions[row.symbol].size), positions[row.symbol].entry_price),
              RMul(row.quantity, FillPrice(row))),
         RAbs(positions'[row.symbol].size))

\* C24: entry_price is the volume-weighted average execution price of the
\* fills that built the open side: the execution price after an opening fill
\* and after a fill that flips the position through zero, the weighted average
\* after an enlarging fill, and unchanged after a merely reducing fill.
C24_CostBasis ==
    [][Executes =>
          /\ Head(queue).symbol \notin DOMAIN positions =>
                 positions'[Head(queue).symbol].entry_price = FillPrice(Head(queue))
          /\ Flips(Head(queue)) =>
                 positions'[Head(queue).symbol].entry_price = FillPrice(Head(queue))
          /\ Enlarges(Head(queue)) =>
                 positions'[Head(queue).symbol].entry_price = WeightedEntry(Head(queue))
          /\ Reduces(Head(queue)) =>
                 positions'[Head(queue).symbol].entry_price =
                     positions[Head(queue).symbol].entry_price]_vars

Between(x, a, b) == (RLe(a, x) /\ RLe(x, b)) \/ (RLe(b, x) /\ RLe(x, a))

\* C25: a fill that enlarges a position on its side (BUY on a long, SELL on a
\* short) sets entry_price to (|old size| * old entry_price + quantity *
\* execution_price) / |new size|, so |new size| * entry_price is the summed
\* cost basis and entry_price lies between the old entry_price and the
\* execution price; it realizes no pnl and changes capital by the cash flow of
\* the fill alone.
C25_AveragingIn ==
    [][(Executes /\ Enlarges(Head(queue))) =>
          /\ RAbs(positions'[Head(queue).symbol].size) =
                 RAdd(RAbs(positions[Head(queue).symbol].size), Head(queue).quantity)
          /\ positions'[Head(queue).symbol].entry_price = WeightedEntry(Head(queue))
          /\ RMul(RAbs(positions'[Head(queue).symbol].size),
                  positions'[Head(queue).symbol].entry_price) =
                 RAdd(RMul(RAbs(positions[Head(queue).symbol].size),
                           positions[Head(queue).symbol].entry_price),
                      FillCost(Head(queue)))
          /\ Between(positions'[Head(queue).symbol].entry_price,
                     positions[Head(queue).symbol].entry_price, FillPrice(Head(queue)))
          /\ positions'[Head(queue).symbol].realized_pnl =
                 positions[Head(queue).symbol].realized_pnl
          /\ trades' = trades
          /\ capital' = RAdd(capital, CashFlow(Head(queue)))]_vars

C25_Witness ==
    /\ lastSignal.outcome = "added"
    /\ lastSignal.row.side = "SELL"
    /\ positions[lastSignal.row.symbol].size = Num(-3)
    /\ positions[lastSignal.row.symbol].entry_price # positions[lastSignal.row.symbol].mark_price
    /\ trades = <<>>

(***************************************************************************)
(* Properties of the funding step.                                         *)
(***************************************************************************)
\* the signals of the current timestamp are done: the next step is the funding step
AtFundingStep == pc = "signals" /\ queue = <<>>

Charge(x) == RMul(RMul(RAbs(positions[x].size), positions[x].mark_price), engine.funding_rate)

\* what the funding of symbol x adds to capital
FundingFlow(x) ==
    IF x \notin DOMAIN positions THEN Zero
    ELSE IF RGt(positions[x].size, Zero) THEN RNeg(Charge(x)) ELSE Charge(x)

UnrealizedOf(x) == IF x \in DOMAIN positions THEN positions[x].unrealized_pnl ELSE Zero

\* C26: funding is charged at the 3rd, 6th, 9th, ... processed timestamp (where
\* len(equity_curve) % 3 = 0 before the snapshot) and at no other; there every
\* open position is charged |size| * mark_price * funding_rate, subtracted
\* from capital for a long, added for a short, added to its funding_paid in
\* both cases, before the equity snapshot of the timestamp is taken.
C26_FundingSchedule ==
    /\ [][AtFundingStep =>
             /\ (ti % 3 = 0) <=> (Len(equity_curve) % 3 = 0)
             /\ equity_curve' = equity_curve
             /\ pc' = "snapshot"
             /\ IF ti % 3 = 0
                THEN /\ DOMAIN positions' = DOMAIN positions
                     /\ \A x \in DOMAIN positions :
                            positions'[x] =
                                [positions[x] EXCEPT !.funding_paid = RAdd(@, Charge(x))]
                     /\ capital' = RAdd(capital, RAdd(FundingFlow("BTC"), FundingFlow("ETH")))
                ELSE capital' = capital /\ positions' = positions]_vars
    /\ [][(pc \in {"mark", "snapshot"} \/ (pc = "signals" /\ queue # <<>>)) =>
             (\A x \in DOMAIN positions \cap DOMAIN positions' :
                  positions'[x].funding_paid = positions[x].funding_paid)]_vars
    /\ [][(pc = "snapshot") =>
             (equity_curve' =
                  Append(equity_curve,
                         RAdd(capital, RAdd(UnrealizedOf("BTC"), UnrealizedOf("ETH")))))]_vars

C26_Witness ==
    /\ pc = "snapshot"
    /\ ti = 3
    /\ \E x \in DOMAIN positions :
           /\ RLt(positions[x].size, Zero)
           /\ RGt(positions[x].funding_paid, Zero)
           /\ lastFor[x].outcome = "opened"
           /\ lastFor[x].row.timestamp = 3

FundedAtSixth ==
    /\ pc = "snapshot"
    /\ ti = 6
    /\ positions["BTC"].funding_paid = RMul(Num(2), RMul(positions["BTC"].mark_price, engine.funding_rate))

(***************************************************************************)
(* Properties of rows without a price.                                     *)
(***************************************************************************)
\* the number of signal rows of the range whose symbol has a price row at their timestamp
PricedSignals ==
    Cardinality({i \in 1..Len(fsignals) : HasPriceRow(fsignals[i].timestamp, fsignals[i].symbol)})

\* C27: a signal whose symbol has no price row at its timestamp, or whose
\* timestamp is not in the filtered price series at all, changes neither
\* capital, positions, the trade log nor the equity curve, and the rows after
\* it in the same timestamp are still processed; the mark-to-market step
\* leaves every position without a price row at the timestamp as it was.
C27_NoPriceNoEffect ==
    /\ [][(/\ pc = "signals"
            /\ queue # <<>>
            /\ ~HasPriceRow(timeline[ti], Head(queue).symbol))
           => (/\ capital' = capital
               /\ positions' = positions
               /\ trades' = trades
               /\ equity_curve' = equity_curve
               /\ executed' = executed
               /\ error' = NoError
               /\ pc' = "signals"
               /\ queue' = Tail(queue))]_vars
    /\ [][(pc = "mark")
           => (/\ \A i \in 1..Len(queue') : queue'[i].timestamp = timeline[ti]
               /\ \E i \in 1..Len(fprices) : fprices[i].timestamp = timeline[ti]
               /\ DOMAIN positions' = DOMAIN positions
               /\ \A x \in DOMAIN positions :
                      ~HasPriceRow(timeline[ti], x) => positions'[x] = positions[x])]_vars
    /\ [](pc \in {"metrics", "done"} => executed <= PricedSignals)

C27_Witness ==
    /\ pc = "signals"
    /\ lastFor["ETH"].outcome = "no_price"
    /\ lastSignal.outcome = "opened"
    /\ lastSignal.row.symbol = "BTC"
    /\ lastSignal.row.timestamp = lastFor["ETH"].row.timestamp

(***************************************************************************)
(* Properties of the admission test.                                       *)
(***************************************************************************)
\* the head of the queue has a price row at the current timestamp
Priced == pc = "signals" /\ queue # <<>> /\ HasPriceRow(timeline[ti], Head(queue).symbol)

SizeBefore(symbol) == IF symbol \in DOMAIN positions THEN positions[symbol].size ELSE Zero

\* C28: every SELL signal with a price row is executed whatever the capital,
\* also when it opens or enlarges a short; a BUY with a price row is executed
\* exactly when cost + commission_cost is at most the capital before the fill,
\* the pnl the fill realizes not counted; an admitted BUY that opens or adds
\* to a long leaves capital >= 0.
C28_AdmissionGatesBuysOnly ==
    /\ [][(Priced /\ Head(queue).side = "SELL") =>
             (/\ executed' = executed + 1
              /\ SizeAfter(Head(queue).symbol) =
                     RSub(SizeBefore(Head(queue).symbol), Head(queue).quantity)
              /\ capital' = RAdd(RAdd(capital, IF Opposes(Head(queue))
                                               THEN Realized(Head(queue)) ELSE Zero),
                                 CashFlow(Head(queue))))]_vars
    /\ [][(Priced /\ Head(queue).side = "BUY") =>
             (IF RLe(RAdd(FillCost(Head(queue)), FillCommission(Head(queue))), capital)
              THEN /\ executed' = executed + 1
                   /\ SizeAfter(Head(queue).symbol) =
                          RAdd(SizeBefore(Head(queue).symbol), Head(queue).quantity)
              ELSE /\ executed' = executed
                   /\ capital' = capital
                   /\ positions' = positions)]_vars
    /\ [][(Executes /\ Head(queue).side = "BUY" /\ ~Opposes(Head(queue))) =>
             (/\ capital' = RAdd(capital, CashFlow(Head(queue)))
              /\ RGe(capital', Zero))]_vars

C28_Witness ==
    /\ lastSignal.outcome = "opened"
    /\ lastSignal.row.side = "SELL"
    /\ executed = 1
    /\ RLt(positions[lastSignal.row.symbol].size, Zero)
    /\ RGt(RSub(capital, initial_capital), initial_capital)

\* a BUY that would cover a short is refused although the capital with the
\* pnl of the cover would pay for it
RefusedCover ==
    /\ lastSignal.outcome = "insufficient_capital"
    /\ lastSignal.row.symbol \in DOMAIN positions
    /\ RLt(positions[lastSignal.row.symbol].size, Zero)
    /\ pc = "signals"
    /\ RLe(RAdd(FillCost(lastSignal.row), FillCommission(lastSignal.row)),
           RAdd(capital, RMul(lastSignal.row.quantity,
                              RSub(FillPrice(lastSignal.row),
                                   positions[lastSignal.row.symbol].entry_price))))

(***************************************************************************)
(* Further properties of the quote model.                                  *)
(***************************************************************************)
SpreadInventories == {Num(-25), Num(-3), Zero, Num(3), Num(25)}

\* gamma * sigma^2 * time_to_maturity + (2/gamma) * log(1 + gamma/k) with
\* k = lambda/(gamma * sigma^2), for the accepted parameters of the call in quote
UnclampedSpread ==
    LET gamma == quote.params.risk_aversion
        sigma_sq == RMul(quote.params.volatility, quote.params.volatility)
        k == RDiv(quote.params.arrival_rate, RMul(gamma, sigma_sq))
    IN  RAdd(RMul(RMul(gamma, sigma_sq), quote.time_to_maturity),
             RMul(RDiv(Num(2), gamma), Log(RAdd(One, RDiv(gamma, k)))))

WidthAt(inventory) ==
    LET r == calculate_optimal_spread(quote.params, quote.mid_price, inventory,
                                      quote.time_to_maturity)
    IN  RSub(r.ask_price, r.bid_price)

\* C29: for given parameters, mid_price > 0 and time_to_maturity the width
\* ask - bid of calculate_optimal_spread is the same for every inventory, and
\* it is what calculate_spread returns,
\* max(gamma * sigma^2 * time_to_maturity + intensity term, reservation_spread).
C29_SpreadIndependentOfInventory ==
    /\ SpreadReturned =>
           /\ \A inventory \in SpreadInventories :
                  WidthAt(inventory) = RSub(quote.ask_price, quote.bid_price)
           /\ RSub(quote.ask_price, quote.bid_price) =
                  calculate_spread(quote.params, quote.inventory, quote.time_to_maturity)
           /\ RSub(quote.ask_price, quote.bid_price) =
                  RMax(UnclampedSpread, quote.params.reservation_spread)
    /\ (quote.pc = "returned_spread" /\ quote.call = "calculate_spread") =>
           /\ quote.spread = RMax(UnclampedSpread, quote.params.reservation_spread)
           /\ \A inventory \in SpreadInventories :
                  calculate_spread(quote.params, inventory, quote.time_to_maturity) = quote.spread
           /\ RGt(quote.mid_price, Zero) => quote.spread = WidthAt(quote.inventory)

C29_Witness ==
    /\ SpreadReturned
    /\ quote.inventory = Num(3)
    /\ quote.bid_price # RSub(quote.mid_price, RDiv(quote.params.reservation_spread, Num(2)))
    /\ RGt(RSub(quote.ask_price, quote.bid_price), quote.params.reservation_spread)
    /\ RGt(quote.params.reservation_spread, Zero)

\* the factor between the returned and the skewed quantity of the growing side
ObservedScale == RDiv(RMax(quote.bid_quantity, quote.ask_quantity), SkewUp)

\* scale is max(0.1, 1 - (ratio - 0.8) * 2) above ratio 0.8, multiplies both
\* quantities, is never below 0.1 and does not grow with the ratio
ScaleFormula ==
    /\ RGt(QuoteRatio, Frac(8, 10)) =>
           ObservedScale = RMax(Frac(1, 10),
                                RSub(One, RMul(RSub(QuoteRatio, Frac(8, 10)), Num(2))))
    /\ RLe(QuoteRatio, Frac(8, 10)) => ObservedScale = One
    /\ RMax(quote.bid_quantity, quote.ask_quantity) = RMul(SkewUp, ObservedScale)
    /\ IF RGt(quote.bid_quantity, quote.ask_quantity) \/ RGt(quote.inventory, Zero)
       THEN quote.ask_quantity = RMul(RMax(Zero, SkewDown), ObservedScale)
       ELSE quote.bid_quantity = RMul(RMax(Zero, SkewDown), ObservedScale)
    /\ RGe(ObservedScale, Frac(1, 10))
    /\ \A inventory \in QuantityInventories :
           RGe(RAbs(inventory), RAbs(quote.inventory)) =>
               RLe(DampeningScale(InventoryRatio(inventory, quote.max_inventory)),
                   ObservedScale)

\* the scale is above the floor for 0.8 < ratio < top and is the floor from top on
FloorReachedAt(top) ==
    /\ (RGt(QuoteRatio, Frac(8, 10)) /\ RLt(QuoteRatio, top)) =>
           (RGt(ObservedScale, Frac(1, 10)) /\ RLt(ObservedScale, One))
    /\ RGe(QuoteRatio, top) => ObservedScale = Frac(1, 10)

\* C30 as stated: for inventory_ratio > 0.8 both quantities are multiplied by
\* scale = max(0.1, 1 - (ratio - 0.8) * 2), which ramps down from 1.0 at ratio
\* 0.8 and reaches the floor 0.1 at ratio 1.3, is non-increasing in the ratio
\* and never below 0.1.
C30_RampReachesFloorAt13 == QuantitiesReturned => (ScaleFormula /\ FloorReachedAt(Frac(13, 10)))

\* C30 amended: as stated, but the scale reaches the floor 0.1 at ratio 1.25:
\* it is 1 - (ratio - 0.8) * 2 > 0.1 for 0.8 < ratio < 1.25 and 0.1 from
\* ratio 1.25 on.
C30_DampeningRamp ==
    QuantitiesReturned =>
        /\ ScaleFormula
        /\ FloorReachedAt(Frac(5, 4))
        /\ (RGt(QuoteRatio, Frac(8, 10)) /\ RLt(QuoteRatio, Frac(5, 4))) =>
               ObservedScale = RSub(One, RMul(RSub(QuoteRatio, Frac(8, 10)), Num(2)))

C30_Witness ==
    /\ QuantitiesReturned
    /\ QuoteRatio = Frac(5, 4)
    /\ quote.base_quantity = Num(2)
    /\ quote.inventory = Num(-25)
    /\ quote.ask_quantity = RMul(Frac(1, 10), SkewUp)
    /\ quote.bid_quantity = RMul(Frac(1, 10), SkewDown)

====
